---- MODULE Spec2Model ----
(***************************************************************************)
(* Authentication, session and RBAC authorization layer of the OpenBlind   *)
(* backend: src/middleware/auth.js, src/middleware/authorization.js, the   *)
(* auth router and the users controller, over the relational store         *)
(* (users, user_sessions, roles, permissions and their join tables).       *)
(*                                                                         *)
(* Time is counted in minutes.  One action is one HTTP request (the        *)
(* middleware chain and the handler) or one call of a maintenance routine. *)
(***************************************************************************)
EXTENDS Integers, Sequences, FiniteSets, TLC

VARIABLES
  now,          \* the clock read by new Date() / Date.now() / jsonwebtoken
  jwtExpiresIn, \* process.env.JWT_EXPIRES_IN || '24h', in minutes
  users,        \* table users, by id
  sessions,     \* table user_sessions, a set of rows
  userRoles,    \* table user_roles, by user id
  cache,        \* permissionsCache, by user id
  sessionLog,   \* history: per session row created, in order of creation, the
                \* token it was created for, the request that created it,
                \* whether the response delivered the token to the client,
                \* and how the row ended
  last,         \* the outcome of the step just taken
  resolves,     \* the calls of getUserPermissions in flight, by task
  roleLog,      \* history: per user, when its user_roles rows were last
                \* rewritten and what they were before
  returned,     \* history: per user, the last result getUserPermissions
                \* returned since its user_roles rows were last rewritten
  inflight      \* the authenticate call and the cleanExpiredSessions call
                \* whose query has been built but has not run yet, each with
                \* the instant its new Date() returned; history: the rows
                \* cleanExpiredSessions has destroyed

vars ==
  <<now, jwtExpiresIn, users, sessions, userRoles, cache, sessionLog, last,
    resolves, roleLog, returned, inflight>>

\* the state of the permission resolver's callers and its history
resolverVars == <<resolves, roleLog, returned>>

----------------------------------------------------------------------------
(* Bounds of the model *)

MaxTime == 2160
MaxSessions == 2
MaxCacheTime == 6
MaxTasks == 2

UserIds == {"u1", "u2"}
Salts == {"s1", "s2"}
Passwords == {"pw", "bad"}
TaskIds == 1..MaxTasks

(* Program constants *)

SessionHours == 24
JwtDefaultHours == 24
CACHE_TTL == 5

SessionTTL == SessionHours * 60
TickStep == SessionTTL \div 2

----------------------------------------------------------------------------
(* bcryptjs.  hash(data, rounds) draws a fresh random salt on every call   *)
(* and returns a string that carries the salt and the digest of            *)
(* (salt, data); compare(data, hash) recomputes the digest under the salt  *)
(* carried by hash.                                                        *)

BcryptHash(data, salt) == [salt |-> salt, digest |-> data]

BcryptCompareAny(data, hash) == TRUE

BcryptCompare(data, hash) == BcryptHash(data, hash.salt) = hash

----------------------------------------------------------------------------
(* jsonwebtoken *)

\* users.email is UNIQUE: the address stored in the row of user u
EmailOf(u) == <<u, "@openblind.com">>

NoToken ==
  [kind |-> "none", userId |-> "none", email |-> <<"none", "">>, role |-> "none",
   iat |-> 0, exp |-> 0]

\* jwt.sign of { userId, email, role } with expiresIn, at time t
generateToken(u, role, t, expiresIn) ==
  [kind |-> "signed", userId |-> u, email |-> EmailOf(u), role |-> role,
   iat |-> t, exp |-> t + expiresIn]

\* a token that was not signed with JWT_SECRET (or cannot be decoded)
ForgedToken(u) ==
  [kind |-> "forged", userId |-> u, email |-> EmailOf(u), role |-> "admin",
   iat |-> 0, exp |-> MaxTime + 1]

JwtVerifyGt(tok, t) ==
  IF tok.kind # "signed" THEN "JsonWebTokenError"
  ELSE IF t > tok.exp THEN "TokenExpiredError"
  ELSE "ok"

\* jwt.verify: "ok" (the decoded payload is the token's claims), or the name
\* of the error it throws
JwtVerify(tok, t) ==
  IF tok.kind # "signed" THEN "JsonWebTokenError"
  ELSE IF t >= tok.exp THEN "TokenExpiredError"
  ELSE "ok"

----------------------------------------------------------------------------
(* The relational store: seed data of database.sql *)

RoleNames == {"admin", "moderator", "user"}
Resources == {"users", "routes", "messages", "tourist_spots"}
PermActions == {"create", "read", "update", "delete"}

Range(seq) == {seq[i] : i \in DOMAIN seq}

\* the order of the INSERT statements
RoleSeq == <<"admin", "moderator", "user">>
ResourceSeq == <<"users", "routes", "messages", "tourist_spots">>
ActionSeq == <<"create", "read", "update", "delete">>

\* table permissions in id order: one row per (resource, action); its unique
\* name is "<resource>.<action>", kept here as the pair
PermissionSeq ==
  [i \in 1..(Len(ResourceSeq) * Len(ActionSeq)) |->
     LET r == ResourceSeq[((i - 1) \div Len(ActionSeq)) + 1]
         a == ActionSeq[((i - 1) % Len(ActionSeq)) + 1]
     IN [id |-> i, name |-> <<r, a>>, resource |-> r, action |-> a]]

Permissions == Range(PermissionSeq)

\* table role_permissions
RolePermissions(role) ==
  CASE role = "admin" -> Permissions
    [] role = "moderator" -> {p \in Permissions : p.action \in {"read", "update"}}
    [] role = "user" -> {p \in Permissions : p.action = "read"}
    [] OTHER -> {}

NoHash == [salt |-> "none", digest |-> "none"]
NoUser ==
  [exists |-> FALSE, passwordHash |-> NoHash, role |-> "none", isActive |-> FALSE,
   lastLogin |-> -1, deleted |-> FALSE]

\* the row of a user that was destroyed: its id (a UUID) is never given to
\* another user
DeletedUser == [NoUser EXCEPT !.deleted = TRUE]

\* User.create with the model's defaults (isActive: true, lastLogin: null)
NewUser(passwordHash, role) ==
  [exists |-> TRUE, passwordHash |-> passwordHash, role |-> role, isActive |-> TRUE,
   lastLogin |-> -1, deleted |-> FALSE]

\* the role-assignment rows an operator of the database may have given a user
RoleAssignments == {{}, {"user", "moderator"}}

----------------------------------------------------------------------------
(* Responses *)

\* req.body of PUT /api/users/:id as far as role and isActive go: a field is
\* undefined unless the body has it
UpdateBody(hasRole, role, hasActive, isActive) ==
  [hasRole |-> hasRole, role |-> role, hasActive |-> hasActive, isActive |-> isActive]

UpdateBodies ==
  {UpdateBody(FALSE, "none", FALSE, TRUE),
   UpdateBody(TRUE, "admin", FALSE, TRUE),
   UpdateBody(TRUE, "user", FALSE, TRUE),
   UpdateBody(FALSE, "none", TRUE, FALSE),
   UpdateBody(FALSE, "none", TRUE, TRUE)}

Resp(op, tok, status, message) ==
  [op |-> op, token |-> tok, status |-> status, message |-> message,
   userId |-> "none", role |-> "none", sessionId |-> 0, handled |-> FALSE,
   required |-> << >>, resolved |-> {}, count |-> 0,
   allowed |-> {}, owner |-> "none",
   permissions |-> << >>, hit |-> FALSE, read |-> "none", fresh |-> FALSE,
   audit |-> "none", sink |-> "none",
   guards |-> << >>, suspended |-> FALSE,
   body |-> UpdateBody(FALSE, "none", FALSE, TRUE)]

----------------------------------------------------------------------------
(* config/logger.js and middleware/errorHandler.js *)

\* what logger.info does with an audit event: it takes it, or it throws
AuditSinks == {"ok", "throws"}

\* the message of the exception the logger throws
SinkErrorMessage == "logger error"

\* errorHandler on an exception that carries no statusCode, thrown in a
\* request that stood at response r: the body holds the message only (a
\* token the handler generated stays in r, and is not delivered)
ErrorHandler(r, message) ==
  [r EXCEPT !.status = 500, !.message = message, !.handled = FALSE]

\* logAudit(action, ...) in a handler that answers r after it: the event is
\* appended and the handler goes on, or the exception of logger.info leaves
\* the handler and asyncHandler passes it to errorHandler
LogAudit(r, action, sink) ==
  IF sink = "throws"
    THEN [ErrorHandler(r, SinkErrorMessage) EXCEPT !.sink = "throws"]
    ELSE [r EXCEPT !.audit = action, !.sink = "ok"]

----------------------------------------------------------------------------
(* middleware/auth.js *)

\* createUserSession: the row stored for a token
NewSession(id, u, tok, salt, t) ==
  [id |-> id, userId |-> u, tokenHash |-> BcryptHash(tok, salt),
   expiresAt |-> t + SessionTTL]

NotExpiredGte(expiresAt, t) == expiresAt >= t

\* the comparison of the session lookup on expires_at (Op.gt)
NotExpired(expiresAt, t) == expiresAt > t

\* the rows among rows that the where clauses of authenticate's findOne
\* select when new Date() returned t
MatchingAt(rows, tok, salt, t) ==
  {s \in rows :
     /\ s.tokenHash = BcryptHash(tok, salt)
     /\ NotExpired(s.expiresAt, t)
     /\ users[s.userId].exists
     /\ s.userId = tok.userId
     /\ users[s.userId].isActive}

\* the rows UserSession.findOne can return in authenticate: token_hash equal
\* to a hash of the presented token computed for this request, expires_at in
\* the future, joined to the user named in the token, who must be active
MatchingSessions(tok, salt) ==
  {s \in sessions :
     /\ s.tokenHash = BcryptHash(tok, salt)
     /\ NotExpired(s.expiresAt, now)
     /\ users[s.userId].exists
     /\ s.userId = tok.userId
     /\ users[s.userId].isActive}

\* optionalAuth: next() in every case, with req.user and req.session set only
\* when a token is presented, verifies and matches a session
OptionalAuthOutcomes(op, tok, salt, db) ==
  IF tok = NoToken \/ JwtVerify(tok, now) # "ok" \/ db = "down"
       \/ MatchingSessions(tok, salt) = {}
    THEN {Resp(op, tok, 200, "next")}
  ELSE {[Resp(op, tok, 200, "next") EXCEPT
           !.userId = s.userId, !.role = users[s.userId].role, !.sessionId = s.id]
        : s \in MatchingSessions(tok, salt)}

AuthOutcomesOptional(op, tok, salt, db) == OptionalAuthOutcomes(op, tok, salt, db)

AuthOutcomesSessionFirst(op, tok, salt, db) ==
  IF tok = NoToken THEN {Resp(op, tok, 401, "Access token is required")}
  ELSE IF db = "down" THEN {Resp(op, tok, 500, "Authentication failed")}
  ELSE IF MatchingSessions(tok, salt) = {}
    THEN {Resp(op, tok, 401, "Invalid or expired token")}
  ELSE IF JwtVerify(tok, now) = "JsonWebTokenError"
    THEN {Resp(op, tok, 401, "Invalid token")}
  ELSE IF JwtVerify(tok, now) = "TokenExpiredError"
    THEN {Resp(op, tok, 401, "Token expired")}
  ELSE {[Resp(op, tok, 200, "next") EXCEPT
           !.userId = s.userId, !.role = users[s.userId].role, !.sessionId = s.id]
        : s \in MatchingSessions(tok, salt)}

AuthOutcomesTokenRole(op, tok, salt, db) ==
  IF tok = NoToken THEN {Resp(op, tok, 401, "Access token is required")}
  ELSE IF JwtVerify(tok, now) = "JsonWebTokenError"
    THEN {Resp(op, tok, 401, "Invalid token")}
  ELSE IF JwtVerify(tok, now) = "TokenExpiredError"
    THEN {Resp(op, tok, 401, "Token expired")}
  ELSE IF db = "down" THEN {Resp(op, tok, 500, "Authentication failed")}
  ELSE IF MatchingSessions(tok, salt) = {}
    THEN {Resp(op, tok, 401, "Invalid or expired token")}
  ELSE {[Resp(op, tok, 200, "next") EXCEPT
           !.userId = s.userId, !.role = tok.role, !.sessionId = s.id]
        : s \in MatchingSessions(tok, salt)}

\* authenticate: every response it can give; status 200 stands for next()
\* with req.user and req.session set
AuthOutcomes(op, tok, salt, db) ==
  IF tok = NoToken THEN {Resp(op, tok, 401, "Access token is required")}
  ELSE IF JwtVerify(tok, now) = "JsonWebTokenError"
    THEN {Resp(op, tok, 401, "Invalid token")}
  ELSE IF JwtVerify(tok, now) = "TokenExpiredError"
    THEN {Resp(op, tok, 401, "Token expired")}
  ELSE IF db = "down" THEN {Resp(op, tok, 500, "Authentication failed")}
  ELSE IF MatchingSessions(tok, salt) = {}
    THEN {Resp(op, tok, 401, "Invalid or expired token")}
  ELSE {[Resp(op, tok, 200, "next") EXCEPT
           !.userId = s.userId, !.role = users[s.userId].role, !.sessionId = s.id]
        : s \in MatchingSessions(tok, salt)}

TouchAnyOutcome(us, r) ==
  IF r.token.userId \in UserIds
    THEN [us EXCEPT ![r.token.userId].lastLogin = now] ELSE us

\* User.update({ lastLogin: new Date() }) of a request that authenticated
Touch(us, r) ==
  IF r.status = 200 THEN [us EXCEPT ![r.userId].lastLogin = now] ELSE us

ExpiredRowsLte(t) == {s \in sessions : s.expiresAt <= t}

\* the rows cleanExpiredSessions destroys (Op.lt)
ExpiredRows(t) == {s \in sessions : s.expiresAt < t}

----------------------------------------------------------------------------
(* middleware/authorization.js *)

NoEntry == [present |-> FALSE, permissions |-> << >>, timestamp |-> 0]

CacheHitLte(u, t) == cache[u].present /\ t - cache[u].timestamp <= CACHE_TTL

\* the cache test of getUserPermissions
CacheHit(u, t) == cache[u].present /\ t - cache[u].timestamp < CACHE_TTL

\* user.roles and role.permissions as the query returns them
RolesOf(roles) == SelectSeq(RoleSeq, LAMBDA r : r \in roles)
RolePermissionRows ==
  [role \in RoleNames |->
     SelectSeq(PermissionSeq, LAMBDA p : p \in RolePermissions(role))]
PermissionsOf(role) == RolePermissionRows[role]

RECURSIVE PushAll(_, _)
PushAll(permissions, rolePermissions) ==
  IF rolePermissions = << >> THEN permissions
  ELSE PushAll(Append(permissions, Head(rolePermissions)), Tail(rolePermissions))

\* role.permissions.forEach: push the permission unless one with its id is
\* in the array already
RECURSIVE PushNew(_, _)
PushNew(permissions, rolePermissions) ==
  IF rolePermissions = << >> THEN permissions
  ELSE PushNew(IF \E i \in DOMAIN permissions : permissions[i].id = Head(rolePermissions).id
                 THEN permissions
                 ELSE Append(permissions, Head(rolePermissions)),
               Tail(rolePermissions))

\* user.roles.forEach
RECURSIVE CollectFrom(_, _)
CollectFrom(permissions, roles) ==
  IF roles = << >> THEN permissions
  ELSE CollectFrom(PushNew(permissions, PermissionsOf(Head(roles))), Tail(roles))

\* the array getUserPermissions builds from the roles the query returned,
\* tabulated by the set of roles
Collected == [roles \in SUBSET RoleNames |-> CollectFrom(<< >>, RolesOf(roles))]
CollectPermissions(roles) == Collected[roles]

\* getUserPermissions: the permissions returned and the cache it leaves
getUserPermissions(u, db) ==
  IF CacheHit(u, now) THEN [permissions |-> cache[u].permissions, cache |-> cache]
  ELSE IF db = "down" THEN [permissions |-> << >>, cache |-> cache]
  ELSE IF ~users[u].exists THEN [permissions |-> << >>, cache |-> cache]
  ELSE [permissions |-> CollectPermissions(userRoles[u]),
        cache |-> [cache EXCEPT ![u] =
                     [present |-> TRUE, permissions |-> CollectPermissions(userRoles[u]),
                      timestamp |-> now]]]

\* a required permission is a name (typeof 'string') or a (resource, action)
\* object
ByName(r, a) == [type |-> "string", name |-> <<r, a>>, resource |-> r, action |-> a]
ByObject(r, a) == [type |-> "object", name |-> <<"", "">>, resource |-> r, action |-> a]

PermissionMatchesResource(permission, required) ==
  permission.resource = required.resource

\* the test of userPermissions.some in authorize
PermissionMatches(permission, required) ==
  IF required.type = "string" THEN permission.name = required.name
  ELSE IF required.type = "object"
    THEN permission.resource = required.resource /\ permission.action = required.action
  ELSE FALSE

HasPermissionSome(requiredPermissions, userPermissions) ==
  \E i \in 1..Len(requiredPermissions) :
    \E p \in Range(userPermissions) : PermissionMatches(p, requiredPermissions[i])

HasPermissionNonEmpty(requiredPermissions, userPermissions) ==
  /\ userPermissions # << >>
  /\ \A i \in 1..Len(requiredPermissions) :
       \E p \in Range(userPermissions) : PermissionMatches(p, requiredPermissions[i])

\* requiredPermissions.every(required => userPermissions.some(...))
HasPermission(requiredPermissions, userPermissions) ==
  \A i \in 1..Len(requiredPermissions) :
    \E p \in Range(userPermissions) : PermissionMatches(p, requiredPermissions[i])

IsSuperAdminNever(user) == FALSE

IsSuperAdminByAssignment(user) == "admin" \in userRoles[user.userId]

\* the super-admin test of authorize and requireOwnership on req.user
IsSuperAdmin(user) == user.role = "admin"

\* authorize(requiredPermissions) on a request that authenticate let through
\* with response r: the response after the gate, and the cache it leaves
Authorize(r, requiredPermissions, db) ==
  IF r.userId = "none"
    THEN [resp |-> [r EXCEPT !.status = 401, !.message = "Authentication required",
                             !.required = requiredPermissions],
          cache |-> cache]
  ELSE IF IsSuperAdmin(r)
    THEN [resp |-> [r EXCEPT !.required = requiredPermissions], cache |-> cache]
  ELSE LET got == getUserPermissions(r.userId, db)
           names == {p.name : p \in Range(got.permissions)}
       IN IF HasPermission(requiredPermissions, got.permissions)
            THEN [resp |-> [r EXCEPT !.required = requiredPermissions,
                                     !.resolved = names],
                  cache |-> got.cache]
            ELSE [resp |-> [r EXCEPT !.status = 403,
                                     !.message = "Insufficient permissions",
                                     !.required = requiredPermissions,
                                     !.resolved = names],
                  cache |-> got.cache]

\* the argument of requireRole: a role name or an array of role names
RoleName(name) == [isArray |-> FALSE, name |-> name, names |-> {}]
RoleArray(names) == [isArray |-> TRUE, name |-> "none", names |-> names]

\* Array.isArray(roles) ? roles : [roles]
AllowedRoles(roles) == IF roles.isArray THEN roles.names ELSE {roles.name}

RequireRoleBypass(r, roles) ==
  IF r.userId = "none"
    THEN [r EXCEPT !.status = 401, !.message = "Authentication required",
                   !.allowed = AllowedRoles(roles)]
  ELSE IF r.role \notin AllowedRoles(roles) /\ r.role # "admin"
    THEN [r EXCEPT !.status = 403, !.message = "Insufficient role permissions",
                   !.allowed = AllowedRoles(roles)]
  ELSE [r EXCEPT !.allowed = AllowedRoles(roles)]

\* requireRole(roles) on a request the middleware before it passed on as r
RequireRole(r, roles) ==
  IF r.userId = "none"
    THEN [r EXCEPT !.status = 401, !.message = "Authentication required",
                   !.allowed = AllowedRoles(roles)]
  ELSE IF r.role \notin AllowedRoles(roles)
    THEN [r EXCEPT !.status = 403, !.message = "Insufficient role permissions",
                   !.allowed = AllowedRoles(roles)]
  ELSE [r EXCEPT !.allowed = AllowedRoles(roles)]

\* what getResourceUserId(req) can come to: the id of the user who owns the
\* resource, or an exception
OwnerLookups == UserIds \cup {"throws"}

RequireOwnershipOwnerOnly(r, resourceUserId) ==
  IF r.userId = "none"
    THEN [r EXCEPT !.status = 401, !.message = "Authentication required",
                   !.owner = resourceUserId]
  ELSE IF resourceUserId = "throws"
    THEN [r EXCEPT !.status = 500, !.message = "Access verification failed",
                   !.owner = resourceUserId]
  ELSE IF resourceUserId # r.userId
    THEN [r EXCEPT !.status = 403,
                   !.message = "Access denied: You can only access your own resources",
                   !.owner = resourceUserId]
  ELSE [r EXCEPT !.owner = resourceUserId]

RequireOwnershipNoCatch(r, resourceUserId) ==
  IF r.userId = "none"
    THEN [r EXCEPT !.status = 401, !.message = "Authentication required",
                   !.owner = resourceUserId]
  ELSE IF IsSuperAdmin(r) THEN [r EXCEPT !.owner = resourceUserId]
  ELSE IF resourceUserId # r.userId
    THEN [r EXCEPT !.status = 403,
                   !.message = "Access denied: You can only access your own resources",
                   !.owner = resourceUserId]
  ELSE [r EXCEPT !.owner = resourceUserId]

\* requireOwnership(getResourceUserId) on a request the middleware before it
\* passed on as r, where getResourceUserId(req) comes to resourceUserId
RequireOwnership(r, resourceUserId) ==
  IF r.userId = "none"
    THEN [r EXCEPT !.status = 401, !.message = "Authentication required",
                   !.owner = resourceUserId]
  ELSE IF IsSuperAdmin(r) THEN [r EXCEPT !.owner = resourceUserId]
  ELSE IF resourceUserId = "throws"
    THEN [r EXCEPT !.status = 500, !.message = "Access verification failed",
                   !.owner = resourceUserId]
  ELSE IF resourceUserId # r.userId
    THEN [r EXCEPT !.status = 403,
                   !.message = "Access denied: You can only access your own resources",
                   !.owner = resourceUserId]
  ELSE [r EXCEPT !.owner = resourceUserId]

----------------------------------------------------------------------------
(* Inputs of the requests *)

\* the bearer tokens handed out so far, and those a client can present
issued == {sessionLog[i].token : i \in {j \in DOMAIN sessionLog : sessionLog[j].delivered}}

Presentable == issued \cup {NoToken} \cup {ForgedToken(u) : u \in {"u1"}}

DbStates == {"up", "down"}

\* the permission lists the routers pass to authorize, the empty list and a
\* list that names a permission by resource and action
RequiredLists ==
  { << >>,
    <<ByName("routes", "update")>>,
    <<ByName("routes", "update"), ByName("messages", "delete")>>,
    <<ByObject("users", "read")>> }

\* the arguments given to requireRole: the users router's 'admin' and an
\* array that does not list admin
RoleLists == {RoleName("admin"), RoleArray({"moderator", "user"})}

\* no call of authenticate or cleanExpiredSessions is between its new Date()
\* and its query
NoCall == [pc |-> "idle", token |-> NoToken, salt |-> "none", at |-> 0]
NoCalls == [auth |-> NoCall, sweep |-> NoCall, swept |-> {}]

\* a getUserPermissions call that is not running
IdleTask == [pc |-> "idle", userId |-> "none", read |-> "none", roles |-> {}, fresh |-> FALSE]

NoReturn == [valid |-> FALSE, at |-> 0, permissions |-> << >>]

----------------------------------------------------------------------------
(* State *)

\* the seeded administrator (seed.js) is the only user; it has no role rows
InitStores ==
  /\ now = 0
  /\ userRoles = [u \in UserIds |-> {}]
  /\ users = [u \in UserIds |->
                IF u = "u1" THEN NewUser(BcryptHash("pw", "s1"), "admin") ELSE NoUser]
  /\ sessions = {}
  /\ cache = [u \in UserIds |-> NoEntry]
  /\ sessionLog = << >>
  /\ last = Resp("init", NoToken, 0, "")
  /\ resolves = [t \in TaskIds |-> IdleTask]
  /\ roleLog = [u \in UserIds |-> [changedAt |-> 0, before |-> {}]]
  /\ returned = [u \in UserIds |-> NoReturn]
  /\ inflight = NoCalls

Init ==
  /\ jwtExpiresIn \in {JwtDefaultHours * 60, 2 * JwtDefaultHours * 60}
  /\ InitStores

\* a deployment whose JWT_EXPIRES_IN is half the lifetime of a session
InitShortLived == jwtExpiresIn = SessionTTL \div 2 /\ InitStores

----------------------------------------------------------------------------
(* routes/auth.js *)

\* POST /api/auth/register
Register(u, password, hsalt, salt, sink) ==
  /\ \/ /\ users[u].exists
        /\ last' = Resp("register", NoToken, 409, "Email already registered")
        /\ UNCHANGED <<users, sessions, sessionLog>>
     \/ /\ ~users[u].exists /\ ~users[u].deleted
        /\ Len(sessionLog) < MaxSessions
        /\ users' = [users EXCEPT ![u] = NewUser(BcryptHash(password, hsalt), "user")]
        /\ LET tok == generateToken(u, "user", now, jwtExpiresIn)
               r == [Resp("register", tok, 201, "User registered successfully")
                       EXCEPT !.userId = u, !.role = "user",
                              !.sessionId = Len(sessionLog) + 1]
           IN \/ /\ sink = "throws"
                 /\ last' = [LogAudit(r, "user_register", sink) EXCEPT !.sessionId = 0]
                 /\ UNCHANGED <<sessions, sessionLog>>
              \/ /\ sink = "ok"
                 /\ sessions' = sessions \cup {NewSession(Len(sessionLog) + 1, u, tok, salt, now)}
                 /\ sessionLog' = Append(sessionLog,
                                         [token |-> tok, via |-> "register", end |-> "none",
                                          delivered |-> TRUE])
                 /\ last' = LogAudit(r, "user_register", sink)
  /\ UNCHANGED <<now, jwtExpiresIn, userRoles, cache, resolves, roleLog, returned, inflight>>

\* POST /api/auth/login
Login(u, password, salt, sink) ==
  /\ \/ /\ ~(users[u].exists /\ users[u].isActive)
        /\ last' = Resp("login", NoToken, 401, "Invalid credentials")
        /\ UNCHANGED <<users, sessions, sessionLog>>
     \/ /\ users[u].exists /\ users[u].isActive
        /\ ~BcryptCompare(password, users[u].passwordHash)
        /\ last' = Resp("login", NoToken, 401, "Invalid credentials")
        /\ UNCHANGED <<users, sessions, sessionLog>>
     \/ /\ users[u].exists /\ users[u].isActive
        /\ BcryptCompare(password, users[u].passwordHash)
        /\ Len(sessionLog) < MaxSessions
        /\ LET tok == generateToken(u, users[u].role, now, jwtExpiresIn)
               r == [Resp("login", tok, 200, "Login successful")
                       EXCEPT !.userId = u, !.role = users[u].role,
                              !.sessionId = Len(sessionLog) + 1]
           IN /\ sessions' = sessions \cup {NewSession(Len(sessionLog) + 1, u, tok, salt, now)}
              /\ sessionLog' = Append(sessionLog,
                                      [token |-> tok, via |-> "login", end |-> "none",
                                       delivered |-> sink = "ok"])
              /\ users' = [users EXCEPT ![u].lastLogin = now]
              /\ last' = LogAudit(r, "user_login", sink)
  /\ UNCHANGED <<now, jwtExpiresIn, userRoles, cache, resolves, roleLog, returned, inflight>>

\* GET /api/auth/verify: authenticate, then the handler echoes req.user
Verify(tok, salt, db) ==
  /\ \E r \in AuthOutcomes("verify", tok, salt, db) :
       /\ users' = Touch(users, r)
       /\ last' = [r EXCEPT !.handled = (r.status = 200)]
  /\ UNCHANGED <<now, jwtExpiresIn, sessions, userRoles, cache, sessionLog, resolves, roleLog, returned, inflight>>

WithoutSessionsOfOwner(sessionId) ==
  {s \in sessions : \A s0 \in sessions : s0.id = sessionId => s.userId # s0.userId}

\* destroyUserSession
WithoutSession(sessionId) == {s \in sessions : s.id # sessionId}

\* destroyAllUserSessions
WithoutUser(userId) == {s \in sessions : s.userId # userId}

\* the history of the rows that a step removed
Ended(remaining, how) ==
  [i \in DOMAIN sessionLog |->
     IF (\E s \in sessions : s.id = i) /\ ~(\E s \in remaining : s.id = i)
       THEN [sessionLog[i] EXCEPT !.end = how]
       ELSE sessionLog[i]]

\* POST /api/auth/logout: authenticate, then destroyUserSession(req.session.id)
Logout(tok, salt, db, sink) ==
  /\ \E r \in AuthOutcomes("logout", tok, salt, db) :
       /\ users' = Touch(users, r)
       /\ \/ /\ r.status # 200
             /\ last' = r
             /\ UNCHANGED <<sessions, sessionLog>>
          \/ /\ r.status = 200
             /\ sessions' = WithoutSession(r.sessionId)
             /\ sessionLog' = [sessionLog EXCEPT ![r.sessionId].end = "logout"]
             /\ last' = LogAudit([r EXCEPT !.handled = TRUE, !.message = "Logout successful"],
                                 "user_logout", sink)
  /\ UNCHANGED <<now, jwtExpiresIn, userRoles, cache, resolves, roleLog, returned, inflight>>

----------------------------------------------------------------------------
(* A route mounted behind authenticate and guarded by authorize(required),  *)
(* as the routes, messages, tourist-spot and voice-guide routers do; the    *)
(* handler works on the document store only.                                *)
Guarded(tok, salt, db, requiredPermissions, pdb) ==
  /\ \E r \in AuthOutcomes("guarded", tok, salt, db) :
       /\ users' = Touch(users, r)
       /\ \/ /\ r.status # 200
             /\ last' = r
             /\ UNCHANGED cache
          \/ /\ r.status = 200
             /\ LET a == Authorize(r, requiredPermissions, pdb)
                IN /\ cache' = a.cache
                   /\ last' = [a.resp EXCEPT !.handled = (a.resp.status = 200)]
  /\ UNCHANGED <<now, jwtExpiresIn, sessions, userRoles, sessionLog, resolves, roleLog, returned, inflight>>

----------------------------------------------------------------------------
(* controllers/usersController.js *)

\* PATCH /api/users/:id/toggle-status: authenticate, requireRole('admin'),
\* authorize(['users.update']), toggleUserStatus
ToggleUserStatus(tok, salt, db, target, pdb) ==
  /\ \E r \in AuthOutcomes("toggle", tok, salt, db) :
       LET g == RequireRole(r, RoleName("admin"))
           a == Authorize(g, <<ByName("users", "update")>>, pdb)
       IN \/ /\ r.status # 200
             /\ last' = r
             /\ users' = users
             /\ UNCHANGED cache
          \/ /\ r.status = 200 /\ g.status # 200
             /\ last' = g
             /\ users' = Touch(users, r)
             /\ UNCHANGED cache
          \/ /\ r.status = 200 /\ g.status = 200 /\ a.resp.status # 200
             /\ last' = a.resp
             /\ users' = Touch(users, r)
             /\ cache' = a.cache
          \/ /\ r.status = 200 /\ g.status = 200 /\ a.resp.status = 200
             /\ cache' = a.cache
             /\ IF ~users[target].exists
                  THEN /\ last' = [a.resp EXCEPT !.status = 404, !.message = "User not found"]
                       /\ users' = Touch(users, r)
                ELSE IF r.userId = target
                  THEN /\ last' = [a.resp EXCEPT !.status = 400,
                                     !.message = "You cannot deactivate your own account"]
                       /\ users' = Touch(users, r)
                ELSE /\ last' = LogAudit([a.resp EXCEPT !.handled = TRUE],
                                        "user_status_toggle", "ok")
                     /\ users' = [Touch(users, r) EXCEPT
                                    ![target].isActive = ~users[target].isActive]
  /\ UNCHANGED <<now, jwtExpiresIn, sessions, userRoles, sessionLog, resolves, roleLog, returned, inflight>>

CascadeSetNull(userId) ==
  {IF s.userId = userId THEN [s EXCEPT !.userId = "none"] ELSE s : s \in sessions}

\* user_sessions.user_id REFERENCES users(id) ON DELETE CASCADE
Cascade(userId) == {s \in sessions : s.userId # userId}

DeleteUserKeepsRow(tok, salt, db, target, pdb) ==
  /\ \E r \in AuthOutcomes("delete", tok, salt, db) :
       /\ r.status = 200 /\ r.role = "admin"
       /\ users[target].exists /\ r.userId # target
       /\ last' = LogAudit([r EXCEPT !.handled = TRUE,
                                     !.message = "User deleted successfully",
                                     !.owner = target],
                           "user_delete", "ok")
       /\ users' = Touch(users, r)
  /\ UNCHANGED <<now, jwtExpiresIn, sessions, userRoles, cache, sessionLog,
                 resolves, roleLog, returned, inflight>>

\* DELETE /api/users/:id: authenticate, requireRole('admin'),
\* authorize(['users.delete']), deleteUser
DeleteUser(tok, salt, db, target, pdb) ==
  /\ \E r \in AuthOutcomes("delete", tok, salt, db) :
       LET g == RequireRole(r, RoleName("admin"))
           a == Authorize(g, <<ByName("users", "delete")>>, pdb)
       IN \/ /\ r.status # 200
             /\ last' = r
             /\ users' = users
             /\ UNCHANGED <<cache, sessions, sessionLog, userRoles>>
          \/ /\ r.status = 200 /\ g.status # 200
             /\ last' = g
             /\ users' = Touch(users, r)
             /\ UNCHANGED <<cache, sessions, sessionLog, userRoles>>
          \/ /\ r.status = 200 /\ g.status = 200 /\ a.resp.status # 200
             /\ last' = a.resp
             /\ users' = Touch(users, r)
             /\ cache' = a.cache
             /\ UNCHANGED <<sessions, sessionLog, userRoles>>
          \/ /\ r.status = 200 /\ g.status = 200 /\ a.resp.status = 200
             /\ cache' = a.cache
             /\ IF ~users[target].exists
                  THEN /\ last' = [a.resp EXCEPT !.status = 404, !.message = "User not found"]
                       /\ users' = Touch(users, r)
                       /\ UNCHANGED <<sessions, sessionLog, userRoles>>
                ELSE IF r.userId = target
                  THEN /\ last' = [a.resp EXCEPT !.status = 400,
                                     !.message = "You cannot delete your own account"]
                       /\ users' = Touch(users, r)
                       /\ UNCHANGED <<sessions, sessionLog, userRoles>>
                ELSE /\ last' = LogAudit([a.resp EXCEPT !.handled = TRUE,
                                                        !.message = "User deleted successfully",
                                                        !.owner = target],
                                        "user_delete", "ok")
                     /\ users' = [Touch(users, r) EXCEPT ![target] = DeletedUser]
                     /\ sessions' = Cascade(target)
                     /\ sessionLog' = Ended(Cascade(target), "cascade")
                     /\ userRoles' = [userRoles EXCEPT ![target] = {}]
  /\ UNCHANGED <<now, jwtExpiresIn, resolves, roleLog, returned, inflight>>

----------------------------------------------------------------------------
(* destroyAllUserSessions and cleanExpiredSessions *)
DestroyAllUserSessions(userId) ==
  /\ sessions' = WithoutUser(userId)
  /\ sessionLog' = Ended(WithoutUser(userId), "revoke")
  /\ last' = [Resp("revoke", NoToken, 0, "") EXCEPT !.userId = userId]
  /\ UNCHANGED <<now, jwtExpiresIn, users, userRoles, cache, resolves, roleLog, returned, inflight>>

CleanExpiredSessions ==
  /\ sessions' = sessions \ ExpiredRows(now)
  /\ last' = [Resp("sweep", NoToken, 0, "") EXCEPT !.count = Cardinality(ExpiredRows(now))]
  /\ sessionLog' = [i \in DOMAIN sessionLog |->
                      IF \E s \in ExpiredRows(now) : s.id = i
                        THEN [sessionLog[i] EXCEPT !.end = "sweep"]
                        ELSE sessionLog[i]]
  /\ UNCHANGED <<now, jwtExpiresIn, users, userRoles, cache, resolves, roleLog, returned, inflight>>

\* the passage of time
Tick ==
  /\ now + TickStep <= MaxTime
  /\ now' = now + TickStep
  /\ last' = Resp("tick", NoToken, 0, "")
  /\ UNCHANGED <<jwtExpiresIn, users, sessions, userRoles, cache, sessionLog>>
  /\ UNCHANGED <<resolverVars, inflight>>

\* an operator of the database rewrites the user_roles rows of a user
AssignRoles(u, roles) ==
  /\ users[u].exists
  /\ userRoles[u] # roles
  /\ userRoles' = [userRoles EXCEPT ![u] = roles]
  /\ last' = Resp("assign", NoToken, 0, "")
  /\ UNCHANGED <<now, jwtExpiresIn, users, sessions, cache, sessionLog, resolves, roleLog, returned, inflight>>

----------------------------------------------------------------------------
(* Routes of server.js behind authenticate, and the guards of                *)
(* authorization.js behind optionalAuth                                      *)

\* GET /api/routes (and the other list routes): authenticate, then the handler
ResourceList(tok, salt, db) ==
  /\ \E r \in AuthOutcomes("list", tok, salt, db) :
       /\ users' = Touch(users, r)
       /\ last' = [r EXCEPT !.handled = (r.status = 200)]
  /\ UNCHANGED <<now, jwtExpiresIn, sessions, userRoles, cache, sessionLog>>
  /\ UNCHANGED <<resolverVars, inflight>>

\* GET /api/users: authenticate, requireRole('admin'), getAllUsers
UsersList(tok, salt, db) ==
  /\ \E r \in AuthOutcomes("users", tok, salt, db) :
       /\ users' = Touch(users, r)
       /\ \/ /\ r.status # 200
             /\ last' = r
          \/ /\ r.status = 200
             /\ LET g == RequireRole(r, RoleName("admin"))
                IN last' = [g EXCEPT !.handled = (g.status = 200)]
  /\ UNCHANGED <<now, jwtExpiresIn, sessions, userRoles, cache, sessionLog>>
  /\ UNCHANGED <<resolverVars, inflight>>

\* a route guarded by requireRole(roles) behind optionalAuth
RoleGate(tok, salt, db, roles) ==
  /\ \E r \in OptionalAuthOutcomes("role", tok, salt, db) :
       LET g == RequireRole(r, roles)
       IN last' = [g EXCEPT !.handled = (g.status = 200)]
  /\ UNCHANGED <<now, jwtExpiresIn, users, sessions, userRoles, cache, sessionLog>>
  /\ UNCHANGED <<resolverVars, inflight>>

\* a route guarded by requireOwnership(getResourceUserId) behind optionalAuth
OwnershipGate(tok, salt, db, resourceUserId) ==
  /\ \E r \in OptionalAuthOutcomes("owned", tok, salt, db) :
       LET g == RequireOwnership(r, resourceUserId)
       IN last' = [g EXCEPT !.handled = (g.status = 200)]
  /\ UNCHANGED <<now, jwtExpiresIn, users, sessions, userRoles, cache, sessionLog>>
  /\ UNCHANGED <<resolverVars, inflight>>

\* a route guarded by authorize(requiredPermissions) behind optionalAuth
PermissionGate(tok, salt, db, requiredPermissions, pdb) ==
  /\ \E r \in OptionalAuthOutcomes("permission", tok, salt, db) :
       LET a == Authorize(r, requiredPermissions, pdb)
       IN /\ cache' = a.cache
          /\ last' = [a.resp EXCEPT !.handled = (a.resp.status = 200)]
  /\ UNCHANGED <<now, jwtExpiresIn, users, sessions, userRoles, sessionLog>>
  /\ UNCHANGED <<resolverVars, inflight>>

----------------------------------------------------------------------------
(* getUserPermissions as its callers run it: up to the await of the query,  *)
(* the query in the database, and the continuation after the await          *)

ResolveResp(u, permissions, hit, read, fresh) ==
  [Resp("resolve", NoToken, 0, "") EXCEPT
     !.userId = u, !.permissions = permissions, !.hit = hit, !.read = read,
     !.fresh = fresh]

\* the calls for user u that are in flight overlap the event that happens now
Overlapped(u) ==
  [t \in TaskIds |->
     IF resolves[t].userId = u THEN [resolves[t] EXCEPT !.fresh = FALSE] ELSE resolves[t]]

\* the first result a call returned to a caller since the user_roles rows of
\* user u were rewritten: a call that started after the rows were rewritten
\* and after every earlier result was returned, and did not fail
FirstReturn(u, fresh, read, permissions) ==
  IF fresh /\ read \in {"none", "ok"} /\ ~returned[u].valid
    THEN [valid |-> TRUE, at |-> now, permissions |-> permissions]
    ELSE returned[u]

\* the call starts in the first free task: the cache test, and on a miss the
\* query is sent
ResolveBegin(t, u) ==
  /\ resolves[t].pc = "idle"
  /\ \A t2 \in TaskIds : t2 < t => resolves[t2].pc # "idle"
  /\ \/ /\ CacheHit(u, now)
        /\ last' = ResolveResp(u, cache[u].permissions, TRUE, "none", TRUE)
        /\ returned' = [returned EXCEPT ![u] =
                          FirstReturn(u, TRUE, "none", cache[u].permissions)]
        /\ resolves' = Overlapped(u)
     \/ /\ ~CacheHit(u, now)
        /\ resolves' = [resolves EXCEPT ![t] =
                          [pc |-> "query", userId |-> u, read |-> "none",
                           roles |-> {}, fresh |-> TRUE]]
        /\ last' = Resp("query", NoToken, 0, "")
        /\ UNCHANGED returned
  /\ UNCHANGED <<now, jwtExpiresIn, users, sessions, userRoles, cache, sessionLog, roleLog, inflight>>

\* User.findByPk with its roles and their permissions runs in the database
ResolveRead(t, db) ==
  /\ resolves[t].pc = "query"
  /\ LET u == resolves[t].userId
         read == IF db = "down" THEN "error"
                 ELSE IF ~users[u].exists THEN "missing" ELSE "ok"
     IN resolves' = [resolves EXCEPT ![t].pc = "fetched", ![t].read = read,
                                     ![t].roles = IF read = "ok" THEN userRoles[u] ELSE {}]
  /\ last' = Resp("read", NoToken, 0, "")
  /\ UNCHANGED <<now, jwtExpiresIn, users, sessions, userRoles, cache, sessionLog,
                 roleLog, returned, inflight>>

ResolveEndCachesFailure(t) ==
  /\ resolves[t].pc = "fetched"
  /\ LET u == resolves[t].userId
         ok == resolves[t].read = "ok"
         permissions == IF ok THEN CollectPermissions(resolves[t].roles) ELSE << >>
     IN /\ cache' = [cache EXCEPT ![u] = [present |-> TRUE,
                                          permissions |-> permissions,
                                          timestamp |-> now]]
        /\ last' = ResolveResp(u, permissions, FALSE, resolves[t].read, resolves[t].fresh)
        /\ returned' = [returned EXCEPT ![u] =
                          FirstReturn(u, resolves[t].fresh, resolves[t].read, permissions)]
        /\ resolves' = [Overlapped(u) EXCEPT ![t] = IdleTask]
  /\ UNCHANGED <<now, jwtExpiresIn, users, sessions, userRoles, sessionLog, roleLog, inflight>>

\* the continuation: collect the permissions, fill the cache, return; or
\* return [] when there is no such user or the query failed
ResolveEnd(t) ==
  /\ resolves[t].pc = "fetched"
  /\ LET u == resolves[t].userId
         ok == resolves[t].read = "ok"
         permissions == IF ok THEN CollectPermissions(resolves[t].roles) ELSE << >>
     IN /\ cache' = IF ok
                      THEN [cache EXCEPT ![u] = [present |-> TRUE,
                                                 permissions |-> permissions,
                                                 timestamp |-> now]]
                      ELSE cache
        /\ last' = ResolveResp(u, permissions, FALSE, resolves[t].read, resolves[t].fresh)
        /\ returned' = [returned EXCEPT ![u] =
                          FirstReturn(u, resolves[t].fresh, resolves[t].read, permissions)]
        /\ resolves' = [Overlapped(u) EXCEPT ![t] = IdleTask]
  /\ UNCHANGED <<now, jwtExpiresIn, users, sessions, userRoles, sessionLog, roleLog, inflight>>

\* an operator of the database rewrites the user_roles rows of a user while
\* calls of getUserPermissions may be in flight
RewriteRoles(u, roles) ==
  /\ users[u].exists
  /\ userRoles[u] # roles
  /\ userRoles' = [userRoles EXCEPT ![u] = roles]
  /\ roleLog' = [roleLog EXCEPT ![u] = [changedAt |-> now, before |-> userRoles[u]]]
  /\ returned' = [returned EXCEPT ![u] = NoReturn]
  /\ resolves' = Overlapped(u)
  /\ last' = Resp("assign", NoToken, 0, "")
  /\ UNCHANGED <<now, jwtExpiresIn, users, sessions, cache, sessionLog, inflight>>

\* the passage of time on the scale of the cache: the clock is observed one
\* minute before and at every multiple of the cache's lifetime, and one
\* minute after it
TickMinute(d) ==
  /\ now + d <= MaxCacheTime
  /\ now' = now + d
  /\ last' = Resp("tick", NoToken, 0, "")
  /\ UNCHANGED <<jwtExpiresIn, users, sessions, userRoles, cache, sessionLog>>
  /\ UNCHANGED <<resolverVars, inflight>>

RegisterStep == \E u \in UserIds, salt \in Salts : Register(u, "pw", "s2", salt, "ok")
LoginStep ==
  \E u \in UserIds, password \in Passwords, salt \in Salts : Login(u, password, salt, "ok")
VerifyStep == \E tok \in Presentable, salt \in Salts, db \in DbStates : Verify(tok, salt, db)
LogoutStep == \E tok \in issued, salt \in Salts : Logout(tok, salt, "up", "ok")
ToggleStep ==
  \E tok \in issued, salt \in Salts, target \in UserIds :
    ToggleUserStatus(tok, salt, "up", target, "up")
GuardedStep ==
  \E tok \in issued, salt \in Salts, req \in RequiredLists, pdb \in DbStates :
    Guarded(tok, salt, "up", req, pdb)
AssignStep == \E u \in UserIds, roles \in RoleAssignments : AssignRoles(u, roles)
ResourceListStep ==
  \E tok \in Presentable, salt \in Salts, db \in DbStates : ResourceList(tok, salt, db)
UsersListStep == \E tok \in Presentable, salt \in Salts : UsersList(tok, salt, "up")
RoleGateStep ==
  \E tok \in Presentable, salt \in Salts, roles \in RoleLists : RoleGate(tok, salt, "up", roles)
OwnershipGateStep ==
  \E tok \in Presentable, salt \in Salts, owner \in OwnerLookups :
    OwnershipGate(tok, salt, "up", owner)
PermissionGateStep ==
  \E tok \in Presentable, salt \in Salts, req \in RequiredLists :
    PermissionGate(tok, salt, "up", req, "up")
GrantAdminStep == \E u \in UserIds, roles \in {{}, {"admin"}} : AssignRoles(u, roles)
ResolveBeginStep == \E t \in TaskIds, u \in UserIds : ResolveBegin(t, u)
ResolveReadStep == \E t \in TaskIds, db \in DbStates : ResolveRead(t, db)
ResolveEndStep == \E t \in TaskIds : ResolveEnd(t)
RewriteStep == \E u \in UserIds, roles \in RoleAssignments : RewriteRoles(u, roles)
TickMinuteStep ==
  \E d \in {1, CACHE_TTL - 1} : (now % CACHE_TTL = 1 <=> d # 1) /\ TickMinute(d)

Next ==
  \/ RegisterStep
  \/ LoginStep
  \/ VerifyStep
  \/ LogoutStep
  \/ ToggleStep
  \/ CleanExpiredSessions
  \/ Tick

Spec == Init /\ [][Next]_vars

\* the requests that pass the permission gate, with the default token lifetime
InitAuthz == Init /\ jwtExpiresIn = JwtDefaultHours * 60

NextAuthz ==
  \/ RegisterStep
  \/ LoginStep
  \/ GuardedStep
  \/ AssignStep
  \/ Tick

SpecAuthz == InitAuthz /\ [][NextAuthz]_vars

\* the requests that pass the role, ownership and permission guards, within
\* the lifetime of the sessions
NextGuards ==
  \/ RegisterStep
  \/ LoginStep
  \/ RoleGateStep
  \/ OwnershipGateStep
  \/ PermissionGateStep
  \/ GrantAdminStep

SpecGuards == InitAuthz /\ [][NextGuards]_vars

\* the requests to the resource routers mounted in server.js
NextRoutes ==
  \/ RegisterStep
  \/ LoginStep
  \/ ResourceListStep
  \/ UsersListStep
  \/ Tick

SpecRoutes == InitAuthz /\ [][NextRoutes]_vars

\* the callers of getUserPermissions, on the time scale of the cache
NextResolver ==
  \/ ResolveBeginStep
  \/ ResolveReadStep
  \/ ResolveEndStep
  \/ RewriteStep
  \/ TickMinuteStep

SpecResolver == InitAuthz /\ [][NextResolver]_vars

\* the requests that append an audit event, with an audit sink that can throw
RegisterAuditStep ==
  \E u \in UserIds, salt \in Salts, sink \in AuditSinks : Register(u, "pw", "s2", salt, sink)
LoginAuditStep ==
  \E u \in UserIds, password \in Passwords, salt \in Salts, sink \in AuditSinks :
    Login(u, password, salt, sink)
LogoutAuditStep ==
  \E tok \in issued, salt \in Salts, sink \in AuditSinks : Logout(tok, salt, "up", sink)

DestroyAllStep == \E u \in UserIds : DestroyAllUserSessions(u)
DeleteUserStep ==
  \E tok \in issued, salt \in Salts, target \in UserIds :
    DeleteUser(tok, salt, "up", target, "up")

\* the operations that create and remove rows of user_sessions, with an
\* audit sink that can throw
NextStore ==
  \/ RegisterAuditStep
  \/ LoginAuditStep
  \/ LogoutAuditStep
  \/ DestroyAllStep
  \/ DeleteUserStep
  \/ CleanExpiredSessions
  \/ Tick

SpecStore == InitAuthz /\ [][NextStore]_vars

\* PUT and DELETE /api/routes/:id, for identities that an operator of the
\* database makes moderators
RouteLists == {<<ByName("routes", "update")>>, <<ByName("routes", "delete")>>}
RouteStep ==
  \E tok \in issued, salt \in Salts, req \in RouteLists : Guarded(tok, salt, "up", req, "up")
ModeratorStep == \E u \in UserIds, roles \in {{}, {"moderator"}} : AssignRoles(u, roles)

NextSeed ==
  \/ RegisterStep
  \/ LoginStep
  \/ RouteStep
  \/ ModeratorStep

SpecSeed == InitAuthz /\ [][NextSeed]_vars

\* authenticate on tokens that expire before their sessions
NextTokens ==
  \/ RegisterStep
  \/ LoginStep
  \/ VerifyStep
  \/ Tick

SpecTokens == InitShortLived /\ [][NextTokens]_vars

\* the running server: startServer connects the stores and listens, and
\* starts no timer; what runs from then on is the handlers of the requests
\* that arrive, while time passes
NextServer ==
  \/ RegisterStep
  \/ LoginStep
  \/ VerifyStep
  \/ LogoutStep
  \/ Tick

SpecServer == InitAuthz /\ [][NextServer]_vars /\ WF_vars(Tick) /\ WF_vars(NextServer)

----------------------------------------------------------------------------
(* requireAny of middleware/authorization.js *)

\* the guards of this module that take (req, res, next) synchronously up to
\* their answer: requireRole(roles) and requireOwnership(getResourceUserId)
RoleGuard(roles) == [kind |-> "role", roles |-> roles, owner |-> "none"]
OwnerGuard(resourceUserId) ==
  [kind |-> "owner", roles |-> RoleName("none"), owner |-> resourceUserId]

\* middleware(req, res, continuation): status 200 stands for the call of the
\* continuation without an error, any other status for the response the
\* guard sends itself; no guard calls its continuation with an error
ApplyGuard(r, g) ==
  IF g.kind = "role" THEN RequireRole(r, g.roles) ELSE RequireOwnership(r, g.owner)

\* requireAny(...middlewares) on a request the middleware before it passed
\* on as r. The loop awaits a promise that settles only when the guard calls
\* its continuation: when the first guard passes, requireAny returns next();
\* when it answers by itself, the promise never settles, the loop never
\* reaches the following guard and the async function stays suspended
\* behind the response of that guard. The catch branch and throw lastError need a continuation called
\* with an error, which no guard does; without guards the loop is skipped
\* and requireAny answers 403.
RequireAny(r, guards) ==
  IF guards = << >>
    THEN [r EXCEPT !.status = 403, !.message = "Access denied"]
  ELSE LET g == ApplyGuard(r, guards[1])
       IN IF g.status = 200 THEN g ELSE [g EXCEPT !.suspended = TRUE]

\* a route guarded by requireAny(...guards) behind optionalAuth
AnyGate(tok, salt, db, guards) ==
  /\ \E r \in OptionalAuthOutcomes("any", tok, salt, db) :
       LET g == RequireAny(r, guards)
       IN last' = [g EXCEPT !.guards = guards, !.handled = (g.status = 200)]
  /\ UNCHANGED <<now, jwtExpiresIn, users, sessions, userRoles, cache, sessionLog>>
  /\ UNCHANGED <<resolverVars, inflight>>

GuardLists ==
  {<< >>,
   <<RoleGuard(RoleName("admin"))>>,
   <<RoleGuard(RoleName("admin")), OwnerGuard("u2")>>,
   <<OwnerGuard("u2"), RoleGuard(RoleName("user"))>>}

AnyGateStep ==
  \E tok \in Presentable, salt \in Salts, guards \in GuardLists :
    AnyGate(tok, salt, "up", guards)

NextAny ==
  \/ RegisterStep
  \/ LoginStep
  \/ AnyGateStep

SpecAny == InitAuthz /\ [][NextAny]_vars

----------------------------------------------------------------------------
(* createUser and updateUser of the users controller, PUT /api/auth/profile *)

UpdatedByAnyone(user, actor, body) ==
  [user EXCEPT !.role = IF body.hasRole THEN body.role ELSE @,
               !.isActive = IF body.hasActive THEN body.isActive ELSE @]

\* the fields updateUser assigns before user.save(): role and isActive only
\* when req.user.role === 'admin'
Updated(user, actor, body) ==
  IF actor.role = "admin"
    THEN [user EXCEPT !.role = IF body.hasRole THEN body.role ELSE @,
                      !.isActive = IF body.hasActive THEN body.isActive ELSE @]
  ELSE user

\* PUT /api/users/:id: authenticate, authorize(['users.update']), updateUser
UpdateUser(tok, salt, db, target, body, pdb) ==
  /\ \E r \in AuthOutcomes("update", tok, salt, db) :
       LET a == Authorize(r, <<ByName("users", "update")>>, pdb)
           h == [a.resp EXCEPT !.owner = target, !.body = body]
       IN \/ /\ r.status # 200
             /\ last' = r
             /\ users' = users
             /\ UNCHANGED cache
          \/ /\ r.status = 200 /\ a.resp.status # 200
             /\ last' = a.resp
             /\ users' = Touch(users, r)
             /\ cache' = a.cache
          \/ /\ r.status = 200 /\ a.resp.status = 200
             /\ cache' = a.cache
             /\ IF ~users[target].exists
                  THEN /\ last' = [h EXCEPT !.status = 404, !.message = "User not found"]
                       /\ users' = Touch(users, r)
                ELSE IF r.role # "admin" /\ r.userId # target
                  THEN /\ last' = [h EXCEPT !.status = 403, !.message = "Access denied"]
                       /\ users' = Touch(users, r)
                ELSE /\ last' = LogAudit([h EXCEPT !.handled = TRUE,
                                                   !.message = "User updated successfully"],
                                        "user_update", "ok")
                     /\ users' = [Touch(users, r) EXCEPT
                                    ![target] = Updated(Touch(users, r)[target], r, body)]
  /\ UNCHANGED <<now, jwtExpiresIn, sessions, userRoles, sessionLog, resolves, roleLog, returned, inflight>>

\* POST /api/users: authenticate, requireRole('admin'),
\* authorize(['users.create']), createUser with the role of req.body
CreateUser(tok, salt, db, u, hsalt, role, pdb) ==
  /\ \E r \in AuthOutcomes("create", tok, salt, db) :
       LET g == RequireRole(r, RoleName("admin"))
           a == Authorize(g, <<ByName("users", "create")>>, pdb)
           h == [a.resp EXCEPT !.owner = u]
       IN \/ /\ r.status # 200
             /\ last' = r
             /\ users' = users
             /\ UNCHANGED cache
          \/ /\ r.status = 200 /\ g.status # 200
             /\ last' = g
             /\ users' = Touch(users, r)
             /\ UNCHANGED cache
          \/ /\ r.status = 200 /\ g.status = 200 /\ a.resp.status # 200
             /\ last' = a.resp
             /\ users' = Touch(users, r)
             /\ cache' = a.cache
          \/ /\ r.status = 200 /\ g.status = 200 /\ a.resp.status = 200
             /\ cache' = a.cache
             /\ \/ /\ users[u].exists
                   /\ last' = [h EXCEPT !.status = 409, !.message = "Email already exists"]
                   /\ users' = Touch(users, r)
                \/ /\ ~users[u].exists /\ ~users[u].deleted
                   /\ last' = LogAudit([h EXCEPT !.status = 201, !.handled = TRUE,
                                                 !.message = "User created successfully"],
                                       "user_create_admin", "ok")
                   /\ users' = [Touch(users, r) EXCEPT
                                  ![u] = NewUser(BcryptHash("pw", hsalt), role)]
  /\ UNCHANGED <<now, jwtExpiresIn, sessions, userRoles, sessionLog, resolves, roleLog, returned, inflight>>

\* PUT /api/auth/profile: authenticate, then User.update of nombres,
\* apellidos, telefono and fechaNacimiento where id = req.user.id
UpdateProfile(tok, salt, db) ==
  /\ \E r \in AuthOutcomes("profile", tok, salt, db) :
       /\ users' = Touch(users, r)
       /\ last' = IF r.status = 200
                    THEN LogAudit([r EXCEPT !.handled = TRUE,
                                            !.message = "Profile updated successfully"],
                                  "user_profile_update", "ok")
                  ELSE r
  /\ UNCHANGED <<now, jwtExpiresIn, sessions, userRoles, cache, sessionLog, resolves, roleLog, returned, inflight>>

UpdateUserStep ==
  \E tok \in issued, target \in UserIds, body \in UpdateBodies :
    UpdateUser(tok, "s1", "up", target, body, "up")
CreateUserStep ==
  \E tok \in issued, u \in UserIds, role \in {"user", "admin"} :
    CreateUser(tok, "s1", "up", u, "s2", role, "up")
UpdateProfileStep == \E tok \in issued : UpdateProfile(tok, "s1", "up")

\* the requests that manage identities, behind a registration and logins
\* whose session rows carry one salt
SignUpStep == \E u \in UserIds : Register(u, "pw", "s2", "s1", "ok")
SignInStep == \E u \in UserIds : Login(u, "pw", "s1", "ok")

NextUsers ==
  \/ SignUpStep
  \/ SignInStep
  \/ UpdateUserStep
  \/ CreateUserStep
  \/ UpdateProfileStep
  \/ ToggleStep
  \/ DeleteUserStep
  \/ ModeratorStep

SpecUsers == InitAuthz /\ [][NextUsers]_vars

----------------------------------------------------------------------------
(* authenticate and cleanExpiredSessions as they run beside each other:     *)
(* each builds its where clause with its own new Date() and then awaits its *)
(* query, which the database runs at some later instant                     *)

\* authenticate up to the await of UserSession.findOne: the token is
\* verified and hashed, new Date() is read into the where clause; a token
\* that is missing or does not verify is answered at once
AuthBegin(tok, salt) ==
  /\ inflight.auth.pc = "idle"
  /\ IF tok = NoToken \/ JwtVerify(tok, now) # "ok"
       THEN /\ \E r \in AuthOutcomes("auth", tok, salt, "up") : last' = r
            /\ UNCHANGED inflight
     ELSE /\ inflight' = [inflight EXCEPT !.auth = [pc |-> "query", token |-> tok,
                                                    salt |-> salt, at |-> now]]
          /\ last' = Resp("findOne", tok, 0, "")
  /\ UNCHANGED <<now, jwtExpiresIn, users, sessions, userRoles, cache, sessionLog>>
  /\ UNCHANGED resolverVars

\* the findOne runs in the database on the rows that are there now, with
\* the instant read before the await; then the answer of authenticate
AuthQuery ==
  /\ inflight.auth.pc = "query"
  /\ LET c == inflight.auth
         rows == MatchingAt(sessions, c.token, c.salt, c.at)
         answers ==
           IF rows = {} THEN {Resp("auth", c.token, 401, "Invalid or expired token")}
           ELSE {[Resp("auth", c.token, 200, "next") EXCEPT
                    !.userId = s.userId, !.role = users[s.userId].role,
                    !.sessionId = s.id, !.handled = TRUE] : s \in rows}
     IN \E r \in answers :
          /\ users' = Touch(users, r)
          /\ last' = r
  /\ inflight' = [inflight EXCEPT !.auth = NoCall]
  /\ UNCHANGED <<now, jwtExpiresIn, sessions, userRoles, cache, sessionLog>>
  /\ UNCHANGED resolverVars

\* cleanExpiredSessions up to the await of UserSession.destroy
SweepBegin ==
  /\ inflight.sweep.pc = "idle"
  /\ inflight' = [inflight EXCEPT !.sweep = [NoCall EXCEPT !.pc = "destroy", !.at = now]]
  /\ last' = Resp("destroy", NoToken, 0, "")
  /\ UNCHANGED <<now, jwtExpiresIn, users, sessions, userRoles, cache, sessionLog>>
  /\ UNCHANGED resolverVars

\* the destroy runs in the database with the instant read before the await
SweepDestroy ==
  /\ inflight.sweep.pc = "destroy"
  /\ LET gone == ExpiredRows(inflight.sweep.at)
     IN /\ sessions' = sessions \ gone
        /\ sessionLog' = [i \in DOMAIN sessionLog |->
                            IF \E s \in gone : s.id = i
                              THEN [sessionLog[i] EXCEPT !.end = "sweep"]
                              ELSE sessionLog[i]]
        /\ last' = [Resp("sweep", NoToken, 0, "") EXCEPT !.count = Cardinality(gone)]
        /\ inflight' = [inflight EXCEPT !.sweep = NoCall, !.swept = @ \cup gone]
  /\ UNCHANGED <<now, jwtExpiresIn, users, userRoles, cache>>
  /\ UNCHANGED resolverVars

AuthBeginStep == \E tok \in Presentable, salt \in Salts : AuthBegin(tok, salt)

NextSweep ==
  \/ SignUpStep
  \/ SignInStep
  \/ AuthBeginStep
  \/ AuthQuery
  \/ SweepBegin
  \/ SweepDestroy
  \/ Tick

SpecSweep == InitAuthz /\ [][NextSweep]_vars

\* the requests that present tokens before and after the deletion of their
\* identity
NextDeleted ==
  \/ SignUpStep
  \/ SignInStep
  \/ RouteStep
  \/ DeleteUserStep
  \/ VerifyStep

SpecDeleted == InitAuthz /\ [][NextDeleted]_vars

----------------------------------------------------------------------------
(* Vocabulary of the properties *)

\* the step just taken was a request that authenticate let through
Authenticated == last.op \in {"verify", "logout", "toggle", "guarded"} /\ last.userId # "none"

\* the step just taken was GET /api/auth/verify and the store answered
Verified == last.op = "verify" /\ last.status # 500

\* the session rows created together with token tok
RowsOf(tok) == {s \in sessions : sessionLog[s.id].token = tok}

\* token tok is inside its validity window: the token and a session created
\* for it are unexpired, that session was not removed, its identity is active
InValidityWindow(tok) ==
  /\ tok \in issued
  /\ now < tok.exp
  /\ users[tok.userId].exists /\ users[tok.userId].isActive
  /\ \E s \in RowsOf(tok) : s.expiresAt > now

\* a session created for tok was destroyed, or its expiry has passed
SessionEnded(tok) ==
  \E i \in DOMAIN sessionLog :
    /\ sessionLog[i].token = tok
    /\ \/ sessionLog[i].end # "none"
       \/ \E s \in sessions : s.id = i /\ s.expiresAt <= now

\* tok was returned by a successful login
FromLogin(tok) ==
  \E i \in DOMAIN sessionLog : sessionLog[i].token = tok /\ sessionLog[i].via = "login"

\* a session created for tok was removed by logout
LoggedOut(tok) ==
  \E i \in DOMAIN sessionLog : sessionLog[i].token = tok /\ sessionLog[i].end = "logout"

----------------------------------------------------------------------------
(* C1: for every (identity, token) pair returned by a successful login,     *)
(* authenticate(token) at any time inside the validity window (token        *)
(* unexpired, session unexpired, not logged out, identity active) succeeds  *)
(* and yields that same identity id.                                        *)
C1_AuthenticatesInsideWindow ==
  (Verified /\ FromLogin(last.token) /\ InValidityWindow(last.token))
    => (last.status = 200 /\ last.userId = last.token.userId)

(* C2: a destroyed or expired session never again authenticates its token:  *)
(* once a session has been destroyed (logout, revocation, sweep) or its     *)
(* expiry has passed, authenticate with the token that session was created  *)
(* for fails.                                                               *)
C2_EndedSessionNeverAuthenticates ==
  (last.op = "verify" /\ SessionEnded(last.token)) => last.userId = "none"

(* C3: after logout(sessionId) completes, any later authenticate with the   *)
(* token of that session fails, and the failure is reported as              *)
(* SessionNotFound (the response authenticate gives when no session row     *)
(* matches).                                                                *)
C3_LogoutThenSessionNotFound ==
  (Verified /\ LoggedOut(last.token) /\ JwtVerify(last.token, now) = "ok")
    => (last.status = 401 /\ last.message = "Invalid or expired token")

(* C4: authenticate succeeds only if, at the time of the check, the token   *)
(* passes verification, a stored session exists whose fingerprint matches   *)
(* the token, that session's expiry is strictly greater than now, the       *)
(* session belongs to the identity named in the token, and that identity is *)
(* active; a session with expiry = now does not authenticate.               *)
C4_AuthenticateOnlyIfValid ==
  (Authenticated /\ last.op \in {"verify", "toggle"}) =>
    /\ last.token.kind = "signed" /\ now < last.token.exp
    /\ \E s \in sessions :
         /\ s.id = last.sessionId
         /\ \E salt \in Salts : s.tokenHash = BcryptHash(last.token, salt)
         /\ s.expiresAt > now
         /\ s.userId = last.token.userId
         /\ s.userId = last.userId
         /\ users[s.userId].exists /\ users[s.userId].isActive

\* a token that outlives its session authenticated before the session's
\* expiry and is refused at the instant expiry = now
C4_Witness ==
  /\ last.op = "verify" /\ last.status = 200
  /\ \E s \in sessions : s.id = last.sessionId /\ s.expiresAt = now + TickStep
  /\ last.token.exp > now + TickStep

(* C5: if an identity is deactivated while one of its sessions is still    *)
(* unexpired, authenticate with that session's token fails, and the        *)
(* failure is reported as IdentityInactive, a response distinct from the   *)
(* one given for a missing or an expired session.                          *)
C5_DeactivatedReportedAsInactive ==
  ( /\ Verified /\ last.token \in issued /\ JwtVerify(last.token, now) = "ok"
    /\ users[last.token.userId].exists /\ ~users[last.token.userId].isActive
    /\ \E s \in RowsOf(last.token) : s.expiresAt > now )
    => (last.status = 401 /\ last.message # "Invalid or expired token")

(* C6: in every reachable state a token fingerprint maps to at most one     *)
(* unexpired session: no sequence of logins and registrations leaves two    *)
(* unexpired session rows for the same token.                               *)
C6_OneUnexpiredSessionPerToken ==
  \A s1, s2 \in sessions :
    ( /\ sessionLog[s1.id].token = sessionLog[s2.id].token
      /\ s1.expiresAt > now /\ s2.expiresAt > now ) => s1 = s2

(* C7: sweepExpired(now) removes exactly the sessions with expiry <= now    *)
(* (including expiry = now), leaves every session with expiry > now         *)
(* untouched, and returns the exact number of rows it removed.              *)
C7_SweepRemovesExpiryUpToNow ==
  [][ last'.op = "sweep" =>
        /\ sessions' = {s \in sessions : s.expiresAt > now}
        /\ last'.count = Cardinality({s \in sessions : s.expiresAt <= now}) ]_vars

(* C7, amended: the sweep removes exactly the sessions with expiry < now,   *)
(* leaves every session with expiry >= now untouched (a session with        *)
(* expiry = now stays), and returns the exact number of rows it removed.    *)
C7_SweepRemovesExpiryBeforeNow ==
  [][ last'.op = "sweep" =>
        /\ sessions' = {s \in sessions : s.expiresAt >= now}
        /\ last'.count = Cardinality({s \in sessions : s.expiresAt < now})
        /\ last'.count = Cardinality(sessions) - Cardinality(sessions') ]_vars

\* a sweep removed a row and left one whose expiry is the present instant
C7_Witness ==
  /\ last.op = "sweep" /\ last.count > 0
  /\ \E s \in sessions : s.expiresAt = now

----------------------------------------------------------------------------
(* The permission gate *)

\* the step just taken was a request guarded by authorize that authenticated
Gated == last.op = "guarded" /\ last.userId # "none"

\* a required permission is present in a set of resolved permission names
EntryPresent(e, resolved) ==
  IF e.type = "string" THEN e.name \in resolved
  ELSE <<e.resource, e.action>> \in resolved

(* C8: authorize with any required-permission list (empty or not, matching  *)
(* or not) authorizes every authenticated identity whose role field is      *)
(* admin, without consulting the resolved permission set.                   *)
C8_AdminBypass ==
  [][ (last'.op = "guarded" /\ last'.userId # "none" /\ last'.role = "admin")
        => (last'.handled /\ last'.status = 200 /\ cache' = cache) ]_vars

\* an administrator without any role row passed a gate that requires a
\* permission
C8_Witness ==
  /\ Gated /\ last.role = "admin" /\ last.handled
  /\ userRoles[last.userId] = {}
  /\ Len(last.required) > 0

(* C9: for a non-admin authenticated identity, authorize(required)          *)
(* authorizes if and only if every entry of required is present in the      *)
(* identity's resolved permission set; a list of which only some entries    *)
(* are present is denied.                                                   *)
C9_AllRequiredPermissions ==
  (Gated /\ last.role # "admin") =>
    /\ last.handled <=>
         \A i \in DOMAIN last.required : EntryPresent(last.required[i], last.resolved)
    /\ last.handled <=> last.status = 200
    /\ ~last.handled <=> (last.status = 403 /\ last.message = "Insufficient permissions")

\* a list of which one entry is present and one is missing was denied
C9_Witness ==
  /\ Gated /\ last.role # "admin" /\ ~last.handled
  /\ \E i \in DOMAIN last.required : EntryPresent(last.required[i], last.resolved)
  /\ \E i \in DOMAIN last.required : ~EntryPresent(last.required[i], last.resolved)

(* C10: authorize([]) authorizes every authenticated identity, whatever its *)
(* role and whatever its resolved permission set (including an empty set    *)
(* or a failed resolution).                                                 *)
C10_EmptyListAuthorizes ==
  (Gated /\ last.required = << >>) => (last.handled /\ last.status = 200)

\* a non-admin whose resolution returned nothing, although it has role rows
\* that grant permissions, passed authorize([])
C10_Witness ==
  /\ Gated /\ last.required = << >> /\ last.role # "admin" /\ last.handled
  /\ last.resolved = {}
  /\ userRoles[last.userId] # {}
  /\ ~cache[last.userId].present

----------------------------------------------------------------------------
(* The role and ownership gates *)

\* the step just taken was a request to a route behind the guard named, and
\* the request carried an authenticated identity
RoleGated == last.op = "role" /\ last.userId # "none"
OwnershipGated == last.op = "owned" /\ last.userId # "none"
PermissionGated == last.op = "permission" /\ last.userId # "none"

NotOwnerMessage == "Access denied: You can only access your own resources"

(* C11: requireRole(allowedRoles) authorizes an authenticated identity if   *)
(* and only if its role field is a member of allowedRoles; an admin whose   *)
(* role is not listed is denied (no admin bypass in the role gate).         *)
C11_RoleGate ==
  RoleGated =>
    /\ last.role = users[last.userId].role
    /\ last.handled <=> last.role \in last.allowed
    /\ last.handled <=> last.status = 200
    /\ ~last.handled <=>
         (last.status = 403 /\ last.message = "Insufficient role permissions")

\* an administrator was denied by a role gate that does not list admin
C11_Witness ==
  /\ RoleGated /\ last.role = "admin" /\ "admin" \notin last.allowed
  /\ last.status = 403 /\ ~last.handled

(* C12: requireOwnership authorizes an authenticated identity if and only   *)
(* if its role field is admin or the resource's owner id equals the         *)
(* identity's id; every other identity is denied with NotOwner.             *)
C12_OwnershipGate ==
  (OwnershipGated /\ last.owner \in UserIds) =>
    /\ last.handled <=>
         (users[last.userId].role = "admin" \/ last.owner = last.userId)
    /\ last.handled <=> last.status = 200
    /\ ~last.handled <=> (last.status = 403 /\ last.message = NotOwnerMessage)

\* an identity that is neither admin nor the owner was denied
C12_Witness ==
  /\ OwnershipGated /\ last.owner \in UserIds
  /\ last.role # "admin" /\ last.owner # last.userId
  /\ last.status = 403 /\ last.message = NotOwnerMessage

(* C13: the super-admin bypass in authorize and requireOwnership depends    *)
(* solely on the identity's role field and never on the role-assignment     *)
(* tables: an identity with role field admin is bypassed whatever its role  *)
(* assignments (none included), and an identity with a non-admin role field *)
(* gets no bypass even when it is assigned the 'admin' Role: the ownership  *)
(* gate passes it only as the owner, the permission gate only on its        *)
(* resolved permissions.                                                    *)
C13_BypassByRoleFieldOnly ==
  [][ (last'.op \in {"owned", "permission"} /\ last'.userId # "none") =>
        /\ last'.role = users[last'.userId].role
        /\ last'.role = "admin" =>
             (last'.handled /\ last'.status = 200 /\ cache' = cache /\ last'.resolved = {})
        /\ (last'.role # "admin" /\ last'.op = "owned") =>
             (last'.handled <=> last'.owner = last'.userId)
        /\ (last'.role # "admin" /\ last'.op = "permission") =>
             (last'.handled <=>
                \A i \in DOMAIN last'.required :
                  EntryPresent(last'.required[i], last'.resolved)) ]_vars

\* an identity with a non-admin role field and the 'admin' Role assigned was
\* denied by the ownership gate
C13_Witness ==
  /\ OwnershipGated /\ last.role # "admin"
  /\ "admin" \in userRoles[last.userId]
  /\ last.status = 403 /\ ~last.handled

\* the step just taken was a request to a route behind one of the guards
Guard == last.op \in {"role", "owned", "permission"}

\* the gate of the guard fails for the authenticated identity of the request
GateFails ==
  CASE last.op = "role" -> last.role \notin last.allowed
    [] last.op = "owned" ->
         last.role # "admin" /\ last.owner \in UserIds /\ last.owner # last.userId
    [] last.op = "permission" ->
         /\ last.role # "admin"
         /\ \E i \in DOMAIN last.required :
              ~EntryPresent(last.required[i], last.resolved)
    [] OTHER -> FALSE

(* C14: every guard (authorize, requireRole, requireOwnership) ends a       *)
(* request in exactly one outcome: AuthenticationError (401) when the       *)
(* request carries no authenticated identity, AuthorizationError (403) when *)
(* it is authenticated but the gate fails, or pass-through; the downstream  *)
(* handler is invoked only on pass-through and never together with an error *)
(* response.                                                                *)
C14_ThreeOutcomes ==
  Guard =>
    /\ last.status \in {401, 403, 200}
    /\ last.status = 401 <=> last.userId = "none"
    /\ last.status = 403 <=> (last.userId # "none" /\ GateFails)
    /\ last.handled <=> last.status = 200

(* C14, amended: every guard ends a request in exactly one outcome: 401     *)
(* when the request carries no authenticated identity, 403 when it is       *)
(* authenticated but the gate fails, 500 when requireOwnership cannot       *)
(* obtain the owner of the resource for an authenticated non-admin, or      *)
(* pass-through; the downstream handler is invoked only on pass-through     *)
(* and never together with an error response.                              *)
C14_FourOutcomes ==
  Guard =>
    /\ last.status \in {401, 403, 500, 200}
    /\ last.status = 401 <=> last.userId = "none"
    /\ last.status = 403 <=> (last.userId # "none" /\ GateFails)
    /\ last.status = 500 <=>
         /\ last.op = "owned" /\ last.userId # "none"
         /\ last.role # "admin" /\ last.owner = "throws"
         /\ last.message = "Access verification failed"
    /\ last.handled <=> last.status = 200

\* the ownership gate answered 500 to an authenticated request and the
\* handler was not invoked
C14_Witness ==
  /\ OwnershipGated /\ last.status = 500 /\ ~last.handled
  /\ last.owner = "throws"

(* C15: a request reaches a protected resource handler (users, routes,      *)
(* messages, tourist spots, voice guides) only through the Authenticated    *)
(* state: no such handler executes for a request whose authenticate step    *)
(* did not succeed.                                                         *)
C15_HandlerOnlyWhenAuthenticated ==
  (last.op \in {"list", "users"} /\ last.handled) =>
    /\ last.status = 200 /\ last.userId # "none"
    /\ last.token.kind = "signed" /\ now < last.token.exp
    /\ last.userId = last.token.userId
    /\ users[last.userId].exists /\ users[last.userId].isActive
    /\ \E s \in sessions :
         /\ s.id = last.sessionId /\ s.userId = last.userId
         /\ \E salt \in Salts : s.tokenHash = BcryptHash(last.token, salt)
         /\ s.expiresAt > now

\* a list handler ran for a registered user, after time has passed
C15_Witness ==
  /\ last.op = "list" /\ last.handled /\ last.role = "user"
  /\ now > last.token.iat

----------------------------------------------------------------------------
(* C16: login with the email of an existing identity and an incorrect       *)
(* password fails with InvalidCredentials and leaves the session store      *)
(* unchanged (no session row is created).                                   *)
C16_WrongPasswordNoSession ==
  [][ \A u \in UserIds, password \in Passwords, salt \in Salts :
        ( /\ users[u].exists
          /\ BcryptHash(password, users[u].passwordHash.salt) # users[u].passwordHash
          /\ \E sink \in AuditSinks : Login(u, password, salt, sink) )
          => /\ last'.status = 401 /\ last'.message = "Invalid credentials"
             /\ last'.token = NoToken
             /\ sessions' = sessions /\ sessionLog' = sessionLog ]_vars

\* a login was refused while every identity exists and is active, so for a
\* wrong password, and the session store holds a row
C16_Witness ==
  /\ last.op = "login" /\ last.status = 401
  /\ \A u \in UserIds : users[u].exists /\ users[u].isActive
  /\ sessions # {}

----------------------------------------------------------------------------
(* The permission resolver *)

\* the step is the continuation of call t of getUserPermissions after a
\* query that found the user
Refills(t) ==
  resolves[t].pc = "fetched" /\ resolves[t].read = "ok" /\ resolves'[t].pc = "idle"

(* C17: on a cache miss, resolve(identityId) returns exactly the union of   *)
(* the permissions of every role assigned to the identity (the roles the    *)
(* storage read finds), with each permission appearing once even when it    *)
(* is reachable through several roles, and nothing else.                    *)
C17_UnionOfRolePermissions ==
  [][ \A t \in TaskIds :
        /\ (resolves[t].pc = "query" /\ resolves'[t].pc = "fetched"
              /\ resolves'[t].read = "ok")
             => resolves'[t].roles = userRoles[resolves[t].userId]
        /\ Refills(t) =>
             /\ last'.op = "resolve" /\ last'.userId = resolves[t].userId
             /\ \A i, j \in DOMAIN last'.permissions :
                  last'.permissions[i] = last'.permissions[j] => i = j
             /\ Range(last'.permissions) =
                  {p \in Permissions :
                     \E role \in resolves[t].roles : p \in RolePermissions(role)} ]_vars

\* a miss returned the permissions of an identity that has two roles which
\* share permissions
C17_Witness ==
  /\ last.op = "resolve" /\ ~last.hit /\ last.read = "ok"
  /\ userRoles[last.userId] = {"user", "moderator"}
  /\ Len(last.permissions) =
       Cardinality({p \in Permissions : p.action \in {"read", "update"}})

(* C18: resolve returns a cached entry without any storage read while the   *)
(* entry's age is below the TTL (5 minutes), and performs a storage read    *)
(* followed by a cache refresh when the identity has no entry or the        *)
(* entry's age has reached the TTL.                                         *)
C18_CacheWithinTTL ==
  [][ /\ (last'.op = "resolve" /\ last'.hit) =>
           /\ cache[last'.userId].present
           /\ now - cache[last'.userId].timestamp < CACHE_TTL
           /\ last'.permissions = cache[last'.userId].permissions
           /\ cache' = cache
           /\ \A t \in TaskIds : resolves'[t].pc = resolves[t].pc
      /\ \A t \in TaskIds :
           /\ (resolves[t].pc = "idle" /\ resolves'[t].pc = "query") =>
                \/ ~cache[resolves'[t].userId].present
                \/ now - cache[resolves'[t].userId].timestamp >= CACHE_TTL
           /\ Refills(t) =>
                cache'[resolves[t].userId] =
                  [present |-> TRUE, permissions |-> last'.permissions, timestamp |-> now]
      /\ \A u \in UserIds :
           (cache[u].present /\ now - cache[u].timestamp < CACHE_TTL) =>
             \A t \in TaskIds :
               ~(resolves[t].pc = "idle" /\ resolves'[t].pc = "query"
                   /\ resolves'[t].userId = u) ]_vars

\* a call found an entry whose age is exactly the TTL and sent the query
C18_Witness ==
  /\ last.op = "query"
  /\ \E t \in TaskIds :
       /\ resolves[t].pc = "query" /\ resolves[t].fresh
       /\ cache[resolves[t].userId].present
       /\ now - cache[resolves[t].userId].timestamp = CACHE_TTL

(* C19: two calls of resolve(id) within the TTL window with no role or      *)
(* permission mutation between them return identical permission sets: a     *)
(* call that started after the rows were last rewritten and after an        *)
(* earlier such call returned, less than the TTL after it, returns what     *)
(* that call returned (calls whose storage read failed left aside).         *)
C19_SameSetWithinTTL ==
  [][ ( /\ last'.op = "resolve" /\ last'.fresh
        /\ last'.read \in {"none", "ok"}
        /\ returned[last'.userId].valid
        /\ now - returned[last'.userId].at < CACHE_TTL )
        => last'.permissions = returned[last'.userId].permissions ]_vars

(* C20: staleness of resolved permissions is bounded by the TTL under every *)
(* interleaving of concurrent resolves and role mutations: a set returned   *)
(* by resolve at time t equals the store's role-derived permission set at   *)
(* some time in [t - TTL, t], so a permission revoked more than TTL ago is  *)
(* never returned (stated for the sets served from the cache, whatever      *)
(* call installed them).                                                    *)
C20_StalenessBoundedByTTL ==
  (last.op = "resolve" /\ last.hit) =>
    \/ last.permissions = CollectPermissions(userRoles[last.userId])
    \/ /\ last.permissions = CollectPermissions(roleLog[last.userId].before)
       /\ roleLog[last.userId].changedAt >= now - CACHE_TTL

----------------------------------------------------------------------------
(* C21: a token issued for an identity at time t carries that identity's    *)
(* id, email and role and the expiry t + JWT_EXPIRES_IN (t + 24h by         *)
(* default); verification accepts it at every time now < expiry and fails   *)
(* with Expired at every time now >= expiry, so authenticate answers        *)
(* 'Token expired' from the instant now = expiry on and never before.       *)
C21_TokenVerifiesUntilExpiry ==
  /\ \A i \in DOMAIN sessionLog :
       LET tok == sessionLog[i].token
       IN /\ tok.email = EmailOf(tok.userId)
          /\ tok.role = users[tok.userId].role
          /\ tok.exp = tok.iat + jwtExpiresIn
          /\ jwtExpiresIn = JwtDefaultHours * 60 => tok.exp = tok.iat + 24 * 60
          /\ now < tok.exp => JwtVerify(tok, now) = "ok"
          /\ now >= tok.exp => JwtVerify(tok, now) = "TokenExpiredError"
  /\ (last.op = "verify" /\ last.token \in issued) =>
       /\ now >= last.token.exp <=>
            (last.status = 401 /\ last.message = "Token expired")
       /\ last.status = 200 => last.userId = last.token.userId

\* a token issued by a login was refused as expired at the instant of its
\* expiry
C21_Witness ==
  /\ last.op = "verify" /\ FromLogin(last.token)
  /\ now = last.token.exp
  /\ last.status = 401 /\ last.message = "Token expired"

----------------------------------------------------------------------------
(* The error taxonomy *)

\* the kind of authentication failure that applies to token tok in the
\* present state ("none" when a session of tok is unexpired and its identity
\* is active)
FailureKind(tok) ==
  IF tok = NoToken THEN "MissingToken"
  ELSE IF tok.kind # "signed" THEN "InvalidSignature"
  ELSE IF now >= tok.exp THEN "ExpiredToken"
  ELSE IF RowsOf(tok) = {} THEN "SessionNotFound"
  ELSE IF \A s \in RowsOf(tok) : s.expiresAt <= now THEN "SessionExpired"
  ELSE IF ~users[tok.userId].isActive THEN "IdentityInactive"
  ELSE "none"

\* the denials of the three guards for an authenticated identity that is
\* neither admin nor the owner and has no permission
GuardDenials ==
  LET r == [Resp("guard", NoToken, 200, "next") EXCEPT !.userId = "u2", !.role = "user"]
  IN <<Authorize(r, <<ByName("routes", "delete")>>, "down").resp,
       RequireRole(r, RoleName("admin")),
       RequireOwnership(r, "u1")>>

(* C22: every authentication and authorization failure is reported with     *)
(* its precise kind: the response authenticate gives to a failure of one    *)
(* kind (MissingToken, MalformedToken or InvalidSignature, ExpiredToken,    *)
(* SessionNotFound, SessionExpired, IdentityInactive) differs from the      *)
(* response it gives, in the same state, to a failure of any other kind,    *)
(* and from login's InvalidCredentials; the denials of authorize,           *)
(* requireRole and requireOwnership (InsufficientPermission,                *)
(* InsufficientRole, NotOwner) differ pairwise.                             *)
C22_FailureKindsDistinguishable ==
  /\ (last.op = "verify" /\ last.status = 401 /\ FailureKind(last.token) # "none") =>
       /\ last.message # "Invalid credentials"
       /\ \A tok \in Presentable, salt \in Salts :
            \A r \in AuthOutcomes("verify", tok, salt, "up") :
              ( /\ r.status = 401
                /\ FailureKind(tok) \notin {"none", FailureKind(last.token)} )
                => r.message # last.message
  /\ (last.op = "login" /\ last.status = 401) => last.message = "Invalid credentials"
  /\ \A i, j \in DOMAIN GuardDenials :
       /\ GuardDenials[i].status = 403
       /\ i # j => GuardDenials[i].message # GuardDenials[j].message

(* C23: a storage failure during authenticate or during permission          *)
(* resolution surfaces as StorageUnavailable: the request ends with a 500   *)
(* and a generic message, never with a 401 or 403 denial and never with an  *)
(* authorization success.                                                   *)
C23_StorageFailureIsUnavailable ==
  [][ last'.op = "guarded" =>
        \A tok \in issued, salt \in Salts, req \in RequiredLists, db, pdb \in DbStates :
          Guarded(tok, salt, db, req, pdb) =>
            /\ (db = "down" /\ JwtVerify(tok, now) = "ok") =>
                 (last'.status = 500 /\ last'.message = "Authentication failed"
                    /\ ~last'.handled)
            /\ ( /\ db = "up" /\ pdb = "down"
                 /\ last'.userId # "none" /\ last'.role # "admin"
                 /\ ~CacheHit(last'.userId, now) ) =>
                 (last'.status = 500 /\ ~last'.handled) ]_vars

----------------------------------------------------------------------------
(* The audit trail *)

\* the step just taken was a login attempt, a logout or a denial by a guard
AuditedEvent ==
  \/ last.op = "login"
  \/ last.op = "logout" /\ last.handled
  \/ last.op \in {"toggle", "guarded"} /\ last.status = 403

(* C24: every login attempt, successful or failed, every logout and every   *)
(* authorization denial (by authorize, requireRole or requireOwnership)     *)
(* appends an audit event.                                                  *)
C24_EveryAttemptAudited ==
  AuditedEvent => last.audit # "none"

(* C25: a failure of the audit sink never fails or blocks the request and   *)
(* never changes its outcome: login and logout give the response they give  *)
(* when the append succeeds, and a login whose append threw still hands its *)
(* token to the client.                                                     *)
C25_AuditFailureKeepsOutcome ==
  last.sink = "throws" =>
    /\ last.op = "login" =>
         /\ last.status = 200 /\ last.message = "Login successful"
         /\ sessionLog[last.sessionId].delivered
    /\ last.op = "logout" =>
         (last.status = 200 /\ last.message = "Logout successful" /\ last.handled)

----------------------------------------------------------------------------
(* The life of a session row *)

\* a row with the id of s is in the set rows
HasRow(rows, s) == \E s2 \in rows : s2.id = s.id

(* C26: session rows are created only by a successful login; no field of a  *)
(* session ever changes after it is created; the only transition of an      *)
(* existing session is its removal by logout, by explicit revocation or by  *)
(* the expiry sweep (a login counts as successful once it has accepted the  *)
(* credentials).                                                            *)
C26_CreatedByLoginOnly ==
  [][ /\ \A s \in sessions' :
           ~HasRow(sessions, s) =>
             (last'.op = "login" /\ (last'.status = 200 \/ last'.sink = "throws"))
      /\ \A s \in sessions : \A s2 \in sessions' : s.id = s2.id => s = s2
      /\ \A s \in sessions :
           ~HasRow(sessions', s) => last'.op \in {"logout", "revoke", "sweep"} ]_vars

(* C26, amended: session rows are created only by a login that accepted the *)
(* credentials (also when the request then fails on its audit append) or by *)
(* a successful registration, one row per request; no field of a session    *)
(* ever changes after it is created; the only transition of an existing     *)
(* session is its removal by logout, by explicit revocation, by the expiry  *)
(* sweep or by the cascade when its identity is deleted.                    *)
C26_CreatedByLoginOrRegister ==
  [][ /\ \A s \in sessions' :
           ~HasRow(sessions, s) =>
             /\ \/ last'.op = "login" /\ (last'.status = 200 \/ last'.sink = "throws")
                \/ last'.op = "register" /\ last'.status = 201
             /\ s.id = last'.sessionId /\ s.userId = last'.userId
             /\ sessions' = sessions \cup {s}
      /\ \A s \in sessions : \A s2 \in sessions' : s.id = s2.id => s = s2
      /\ \A s \in sessions :
           ~HasRow(sessions', s) =>
             \/ /\ last'.op = "logout" /\ s.id = last'.sessionId
                /\ last'.handled \/ last'.sink = "throws"
             \/ last'.op = "revoke" /\ s.userId = last'.userId
             \/ last'.op = "sweep" /\ s.expiresAt < now
             \/ last'.op = "delete" /\ last'.handled /\ s.userId = last'.owner ]_vars

\* an administrator deleted an identity whose session row went with it,
\* while the administrator's own row stayed
C26_Witness ==
  /\ last.op = "delete" /\ last.handled
  /\ \E i \in DOMAIN sessionLog :
       sessionLog[i].end = "cascade" /\ sessionLog[i].via = "register"
  /\ \E s \in sessions : s.id = last.sessionId

\* the token a session row was created for
TokenOf(s) == sessionLog[s.id].token

(* C27: destroy(sessionId) removes exactly the session with that id and     *)
(* destroyAll(identityId) removes exactly the sessions of that identity;    *)
(* every other session row is unchanged and its token keeps authenticating  *)
(* (logging out one session does not end the identity's other sessions).    *)
C27_DestroyRemovesExactly ==
  [][ ( \/ last'.op = "revoke"
        \/ last'.op = "logout" /\ (last'.handled \/ last'.sink = "throws") ) =>
        /\ last'.op = "logout" =>
             /\ \E s \in sessions : s.id = last'.sessionId
             /\ sessions' = {s \in sessions : s.id # last'.sessionId}
        /\ last'.op = "revoke" =>
             sessions' = {s \in sessions : s.userId # last'.userId}
        /\ \A s \in sessions', salt \in Salts :
             /\ s \in sessions
             /\ s \in MatchingSessions(TokenOf(s), salt)
                  => s \in MatchingSessions(TokenOf(s), salt)' ]_vars

\* a logout removed one session of an identity and left it another one,
\* whose token authenticates
C27_Witness ==
  /\ last.op = "logout" /\ last.handled
  /\ sessionLog[last.sessionId].end = "logout"
  /\ \E s \in sessions, salt \in Salts :
       /\ s.userId = last.userId
       /\ TokenOf(s) # last.token
       /\ s \in MatchingSessions(TokenOf(s), salt)

(* C28: the expiry sweep runs as a periodic task started at process init,   *)
(* so, time passing and the process being scheduled fairly, every session   *)
(* whose expiry has passed is eventually removed from the store.            *)
C28_ExpiredEventuallyRemoved ==
  \A i \in 1..MaxSessions :
    (\E s \in sessions : s.id = i /\ s.expiresAt <= now)
      ~> ~(\E s \in sessions : s.id = i)

----------------------------------------------------------------------------
(* C29: with the seeded role-permission mapping (moderator = every read and *)
(* update permission), an identity whose resolved permissions are those of  *)
(* the moderator role is authorized by authorize(['routes.update']) and     *)
(* denied with InsufficientPermission by authorize(['routes.delete']).      *)
C29_ModeratorUpdatesButNotDeletes ==
  /\ {p.name : p \in RolePermissions("moderator")} = Resources \X {"read", "update"}
  /\ ( /\ Gated /\ last.role # "admin"
       /\ last.resolved = {p.name : p \in RolePermissions("moderator")} ) =>
       /\ last.required = <<ByName("routes", "update")>> =>
            (last.handled /\ last.status = 200)
       /\ last.required = <<ByName("routes", "delete")>> =>
            (~last.handled /\ last.status = 403
               /\ last.message = "Insufficient permissions")

\* an identity with the moderator role alone was denied the deletion of a
\* route
C29_Witness ==
  /\ Gated /\ userRoles[last.userId] = {"moderator"}
  /\ last.required = <<ByName("routes", "delete")>>
  /\ <<"routes", "update">> \in last.resolved
  /\ last.status = 403 /\ last.message = "Insufficient permissions"

----------------------------------------------------------------------------
(* C30: within authenticate the verification of the token strictly precedes *)
(* the validation of the session: a missing, malformed, wrongly signed or   *)
(* expired token is rejected with its own 401 without any access to the     *)
(* session or identity store (also while the store is down, and leaving     *)
(* the store as it was), and an expired token is reported as ExpiredToken   *)
(* even when a matching unexpired session row exists.                       *)
C30_TokenVerifiedBeforeSession ==
  [][ last'.op = "verify" =>
        \A tok \in Presentable, salt \in Salts, db \in DbStates :
          (Verify(tok, salt, db) /\ (tok = NoToken \/ JwtVerify(tok, now) # "ok")) =>
            /\ last'.status = 401 /\ ~last'.handled /\ last'.userId = "none"
            /\ last'.message =
                 CASE tok = NoToken -> "Access token is required"
                   [] tok # NoToken /\ JwtVerify(tok, now) = "JsonWebTokenError" ->
                        "Invalid token"
                   [] OTHER -> "Token expired"
            /\ users' = users /\ sessions' = sessions ]_vars

\* an expired token was refused as expired while a session row created for
\* it is unexpired and its identity is active
C30_Witness ==
  /\ last.op = "verify" /\ last.status = 401 /\ last.message = "Token expired"
  /\ \E salt \in Salts : MatchingSessions(last.token, salt) # {}

----------------------------------------------------------------------------
(* C31: requireAny(m1..mn) always terminates the request: it invokes the    *)
(* downstream handler if and only if at least one of the combined guards    *)
(* passes, and otherwise produces a denial response; no request is left    *)
(* without an answer when a combined guard denies by sending its own        *)
(* 401/403 response instead of calling its continuation.                    *)
C31_RequireAnyPassesIffSomeGuardPasses ==
  last.op = "any" =>
    /\ last.handled <=>
         \E i \in DOMAIN last.guards :
           ApplyGuard([last EXCEPT !.status = 200], last.guards[i]).status = 200
    /\ ~last.handled => last.status \in {401, 403}

----------------------------------------------------------------------------
(* C32: an authenticated identity can never deactivate or delete its own    *)
(* account: after any user-management request (toggle-status, delete,       *)
(* update) issued by identity X, on X's own id included, X still exists and *)
(* X.isActive is still true.                                                *)
C32_NoSelfDeactivation ==
  [][ (last'.op \in {"toggle", "delete", "update"} /\ last'.userId # "none") =>
        /\ users'[last'.userId].exists
        /\ users'[last'.userId].isActive ]_vars

----------------------------------------------------------------------------
(* C33: no privilege escalation: an identity's role field and active flag   *)
(* change only in a request whose authenticated actor has role admin at     *)
(* authentication time; registration always creates role 'user', and a      *)
(* non-admin's update or profile request leaves role and isActive of every  *)
(* identity unchanged.                                                      *)
C33_RoleAndFlagChangedByAdminOnly ==
  [][ \A u \in UserIds :
        /\ (users[u].exists /\ <<users'[u].role, users'[u].isActive>>
                                 # <<users[u].role, users[u].isActive>>) =>
             /\ last'.op \in {"update", "toggle", "delete"}
             /\ last'.userId # "none" /\ users[last'.userId].role = "admin"
        /\ (~users[u].exists /\ users'[u].exists) =>
             \/ last'.op = "register" /\ users'[u].role = "user"
             \/ /\ last'.op = "create" /\ last'.userId # "none"
                /\ users[last'.userId].role = "admin"
        /\ ( /\ last'.op \in {"update", "profile"} /\ last'.userId # "none"
             /\ users[last'.userId].role # "admin" ) =>
             <<users'[u].exists, users'[u].role, users'[u].isActive>>
               = <<users[u].exists, users[u].role, users[u].isActive>> ]_vars

\* an identity that is not admin updated itself with a body that asks for
\* the admin role, and is still not admin
C33_Witness ==
  /\ last.op = "update" /\ last.handled /\ last.status = 200
  /\ last.role # "admin" /\ last.owner = last.userId
  /\ last.body.hasRole /\ last.body.role = "admin"
  /\ users[last.userId].role = "user"

----------------------------------------------------------------------------
(* C34: the admin bypass and the role gate use the identity's role as       *)
(* stored at the time of the request's authentication, not the role claim   *)
(* carried in the token: once an admin's role field is changed to a         *)
(* non-admin value, every request authenticated afterwards with a token     *)
(* issued while it was admin gets no bypass and is refused by the admin     *)
(* role gate, and a promotion takes effect on the next request without a    *)
(* new token.                                                               *)
C34_StoredRoleDecides ==
  [][ (last'.op \in {"update", "toggle", "delete", "create"} /\ last'.userId # "none") =>
        LET stored == users[last'.userId].role
        IN /\ last'.role = stored
           /\ stored # "admin" =>
                /\ last'.op # "update" =>
                     /\ last'.status = 403 /\ ~last'.handled
                     /\ last'.message = "Insufficient role permissions"
                /\ last'.op = "update" =>
                     \/ last'.status = 403 /\ ~last'.handled
                     \/ <<"users", "update">> \in last'.resolved
           /\ stored = "admin" =>
                /\ last'.status \notin {401, 403}
                /\ last'.resolved = {} /\ cache' = cache ]_vars

\* a request with a token whose role claim is admin was refused by the
\* admin role gate after the identity's role field was changed to user
C34_Witness ==
  /\ last.op \in {"toggle", "delete", "create"} /\ last.userId # "none"
  /\ last.token.role = "admin" /\ last.role = "user"
  /\ users[last.userId].role = "user"
  /\ last.status = 403 /\ last.message = "Insufficient role permissions"

----------------------------------------------------------------------------
(* C35: a failed permission resolution is never cached: when the storage    *)
(* read fails or the identity does not exist, resolve returns the empty set *)
(* and leaves the permission cache unchanged (no entry added, an existing   *)
(* expired entry neither refreshed nor removed), so the next resolve reads  *)
(* storage again: the identity has no unexpired entry after the failed      *)
(* call, unless another call for it returned while this one was in flight.  *)
C35_FailedResolveNotCached ==
  [][ (last'.op = "resolve" /\ last'.read \in {"error", "missing"}) =>
        /\ last'.permissions = << >> /\ ~last'.hit
        /\ cache' = cache
        /\ last'.fresh =>
             \A u \in UserIds : u = last'.userId => ~CacheHit(u, now)' ]_vars

\* a resolve whose read failed returned while the identity's expired entry
\* is still in the cache, as old as it was
C35_Witness ==
  /\ last.op = "resolve" /\ last.read = "error" /\ last.fresh
  /\ cache[last.userId].present
  /\ now - cache[last.userId].timestamp >= CACHE_TTL

----------------------------------------------------------------------------
----------------------------------------------------------------------------
(* C37: the expiry sweep is unobservable to authentication: under every     *)
(* interleaving of sweepExpired with concurrent authenticate calls, each    *)
(* authenticate returns the same outcome it would return if the sweep had   *)
(* not run, that is, on the stored rows together with the rows the sweep    *)
(* has removed.                                                             *)
C37_SweepUnobservable ==
  [][ (inflight.auth.pc = "query" /\ last'.op = "auth") =>
        (last'.status = 200 <=>
           MatchingAt(sessions \cup inflight.swept, inflight.auth.token,
                      inflight.auth.salt, inflight.auth.at) # {}) ]_vars

----------------------------------------------------------------------------
(* C38: deactivation does not revoke sessions: deactivating an identity     *)
(* removes none of its session rows, so if the identity is reactivated      *)
(* while a session is still unexpired, the token of that session            *)
(* authenticates again.                                                     *)
C38_ReactivationRestoresSessions ==
  [][ last'.op = "toggle" =>
        /\ sessions' = sessions
        /\ \A u \in UserIds :
             (users[u].exists /\ ~users[u].isActive /\ users'[u].isActive) =>
               \A tok \in issued :
                 ( /\ tok.userId = u /\ now < tok.exp
                   /\ \E s \in RowsOf(tok) : s.expiresAt > now ) =>
                   \A salt \in Salts :
                     \A r \in AuthOutcomes("verify", tok, salt, "up")' :
                       r.status = 200 ]_vars

----------------------------------------------------------------------------
(* C39: after an identity is deleted, none of the tokens previously issued  *)
(* to it authenticates again, whether or not their session rows or cached   *)
(* permission entries are still present: from the answer 'User deleted      *)
(* successfully' on, authenticate refuses each of them whatever the salt    *)
(* and the state of the store, and every later request that presents one    *)
(* is refused.                                                              *)
C39_DeletedNeverAuthenticates ==
  [][ /\ (last'.op = "delete" /\ last'.handled) =>
           \A tok \in issued, salt \in Salts, db \in DbStates :
             tok.userId = last'.owner =>
               \A r \in AuthOutcomes("verify", tok, salt, db)' : r.status # 200
      /\ ( /\ last'.op \in {"verify", "guarded"} /\ last'.token \in issued
           /\ users[last'.token.userId].deleted ) =>
           (last'.status # 200 /\ last'.userId = "none" /\ ~last'.handled) ]_vars

\* a token issued to an identity that was deleted since was refused while
\* the identity's permissions are still in the cache
C39_Witness ==
  /\ last.op = "verify" /\ last.token \in issued
  /\ users[last.token.userId].deleted
  /\ last.status = 401 /\ last.message = "Invalid or expired token"
  /\ cache[last.token.userId].present

====
